---- MODULE Spec2Model ----
(***************************************************************************)
(* A model of java_test_mcp: the compile / test / coverage orchestration   *)
(* of src/src/java_test_mcp/utils.py and the tool dispatcher of            *)
(* src/src/java_test_mcp/server.py.                                        *)
(*                                                                         *)
(* Strings that the code takes apart (paths, classpaths, diagnostic        *)
(* lines) are sequences of tokens: "/" is the path separator, ":" is the   *)
(* colon (os.pathsep and the colon of a javac diagnostic), every other     *)
(* token is a run of characters holding neither.  A text is a sequence of  *)
(* lines (str.splitlines), so the empty string is <<>>.                    *)
(***************************************************************************)
EXTENDS Integers, Sequences, FiniteSets, TLC

VARIABLES
    pc,              \* position of the compile call: idle, await1, await2, done
    fs,              \* the files glob.glob enumerates, in enumeration order
    files_arg,       \* the source_files argument of java_compile (specs)
    resolved_file,   \* java_compile: resolve_file_list(source_files)
    output_dir,      \* compile_java_files: output_dir (resolved)
    classpath,       \* compile_java_files: classpath (assembled)
    source_files,    \* compile_java_files: source_files (list, then set)
    error_files,     \* compile_java_files: error_files
    invocations,     \* the compiler subprocesses of this call, in start order
    made_dirs,       \* directories created by os.makedirs
    outcome,         \* what the call returned or raised
    rp_path,         \* resolve_workspace_path: relative_path
    rp_root,         \* resolve_workspace_path: workspace_path
    rp_result,       \* resolve_workspace_path: the returned path
    sv_name,         \* handle_call_tool: name
    sv_arguments,    \* handle_call_tool: arguments
    sv_exit,         \* exit codes and stderr of the subprocesses of the tool
    sv_response,     \* handle_call_tool: what reached the caller
    rf_files,        \* resolve_file_list: files
    rf_root,         \* resolve_file_list: workspace_path
    rf_result,       \* resolve_file_list: the returned list
    cp_arg,          \* resolve_classpath: classpath
    cp_env,          \* server.py: DEFAULT_CLASSPATH_PATH and the pom classpath
    cp_result,       \* resolve_classpath: the returned classpath
    jn_pc,           \* position of the run_junit call: idle, await, done
    jn_args,         \* run_junit: the arguments of the call
    jn_cmd,          \* run_junit: cmd
    jn_proc,         \* run_junit: the test-runner subprocess
    jn_outcome,      \* run_junit: what the call returned or raised
    cv_pc,           \* position of the report_coverage call
    cv_args,         \* report_coverage: the arguments of the call
    cv_cmd,          \* report_coverage: cmd
    cv_proc,         \* report_coverage: the report-generator subprocess
    cv_parsed,       \* report_coverage: the path given to parse_coverage_report
    cv_outcome,      \* report_coverage: what the call returned or raised
    sm_stdout,       \* junit_result_summary: stdout_str
    sm_result,       \* junit_result_summary: the returned dict
    xml_report,      \* parse_coverage_report: the report that is parsed
    xml_result,      \* parse_coverage_report: the returned dict
    cc_calls,        \* the concurrent compile_java_files calls, by call
    cc_files         \* the scratch files ever created

compile_vars == <<pc, fs, files_arg, resolved_file, output_dir, classpath,
                  source_files, error_files, invocations, made_dirs, outcome>>
resolve_vars == <<rp_path, rp_root, rp_result>>
server_vars == <<sv_name, sv_arguments, sv_exit, sv_response>>
files_vars == <<rf_files, rf_root, rf_result>>
classpath_vars == <<cp_arg, cp_env, cp_result>>
junit_vars == <<jn_pc, jn_args, jn_cmd, jn_proc, jn_outcome>>
coverage_vars == <<cv_pc, cv_args, cv_cmd, cv_proc, cv_parsed, cv_outcome>>
parse_vars == <<sm_stdout, sm_result, xml_report, xml_result>>
concurrent_vars == <<cc_calls, cc_files>>
pipeline_vars == <<files_vars, classpath_vars, junit_vars, coverage_vars,
                   parse_vars, concurrent_vars>>
vars == <<compile_vars, resolve_vars, server_vars, pipeline_vars>>

----------------------------------------------------------------------------
(* Bounds of the model *)

\* most lines of diagnostics the first compiler invocation writes
MaxLines == 2
\* most entries of a source_files argument
MaxSpecs == 2
\* most tokens of a path given to resolve_workspace_path
MaxPathLen == 3
\* most tokens of a workspace root given to resolve_workspace_path
MaxRootLen == 2

None == "None"

Range(s) == {s[i] : i \in 1..Len(s)}

SeqsUpTo(S, n) == UNION {[1..k -> S] : k \in 0..n}

Max(S) == CHOOSE x \in S : \A y \in S : y <= x

----------------------------------------------------------------------------
(* os.path on token sequences *)

\* os.path.isabs (posixpath): the string starts with "/"
os_path_isabs(p) == Len(p) > 0 /\ p[1] = "/"

\* os.path.join(a, b) (posixpath): b alone when b is absolute, a + b when a
\* is empty or ends with "/", a + "/" + b otherwise
os_path_join(a, b) ==
    IF os_path_isabs(b) THEN b
    ELSE IF a = <<>> \/ a[Len(a)] = "/" THEN a \o b
    ELSE a \o <<"/">> \o b

\* utils.py resolve_workspace_path with the absolute-path test left out and
\* the two parts glued with a separator
resolve_workspace_path_glued(relative_path, workspace_path) ==
    workspace_path \o <<"/">> \o relative_path

resolve_workspace_path(relative_path, workspace_path) ==
    IF os_path_isabs(relative_path) THEN relative_path
    ELSE os_path_join(workspace_path, relative_path)

\* os.path.dirname / os.path.basename (posixpath): split at the last "/"
LastSep(p) ==
    LET seps == {i \in 1..Len(p) : p[i] = "/"}
    IN  IF seps = {} THEN 0 ELSE Max(seps)

RECURSIVE rstrip_sep(_)
rstrip_sep(p) ==
    IF p # <<>> /\ p[Len(p)] = "/" THEN rstrip_sep(SubSeq(p, 1, Len(p) - 1))
    ELSE p

os_path_dirname(p) ==
    LET head == SubSeq(p, 1, LastSep(p))
    IN  IF head # <<>> /\ \E i \in 1..Len(head) : head[i] # "/"
        THEN rstrip_sep(head)
        ELSE head

os_path_basename(p) == SubSeq(p, LastSep(p) + 1, Len(p))

----------------------------------------------------------------------------
(* str.split / str.join on token sequences *)

RECURSIVE str_split(_, _)
str_split(s, sep) ==
    LET at == {i \in 1..Len(s) : s[i] = sep}
    IN  IF at = {} THEN <<s>>
        ELSE LET i == CHOOSE k \in at : \A j \in at : k <= j
             IN  <<SubSeq(s, 1, i - 1)>> \o str_split(SubSeq(s, i + 1, Len(s)), sep)

RECURSIVE str_join(_, _)
str_join(parts, sep) ==
    IF parts = <<>> THEN <<>>
    ELSE IF Len(parts) = 1 THEN parts[1]
    ELSE parts[1] \o <<sep>> \o str_join(Tail(parts), sep)

----------------------------------------------------------------------------
(* The file system seen through glob.glob *)

JavaNames == {"A.java", "B.java", "X.java"}

WildTokens == {"*", "**", "*.java"}

\* '*' in file_path answered with False for every spec
has_star_never(p) == FALSE

\* '*' in file_path
has_star(p) == \E i \in 1..Len(p) : p[i] \in WildTokens

\* '**' in pattern
has_double_star(p) == \E i \in 1..Len(p) : p[i] = "**"

\* fnmatch of one path segment
TokMatch(pt, t) ==
    IF pt = "*.java" THEN t \in JavaNames
    ELSE IF pt \in {"*", "**"} THEN t \notin {"/", ":"}
    ELSE pt = t

\* glob matching of a whole path; "**" spans directory levels only when
\* the search is recursive
RECURSIVE GlobMatch(_, _, _)
GlobMatch(pat, f, recursive) ==
    IF pat = <<>> THEN f = <<>>
    ELSE IF recursive /\ Head(pat) = "**"
    THEN \/ Len(pat) = 1 /\ f # <<>>
         \/ Len(pat) >= 2 /\ GlobMatch(SubSeq(pat, 3, Len(pat)), f, recursive)
         \/ /\ Len(f) >= 2
            /\ f[1] # "/"
            /\ f[2] = "/"
            /\ GlobMatch(pat, SubSeq(f, 3, Len(f)), recursive)
    ELSE /\ f # <<>>
         /\ TokMatch(Head(pat), Head(f))
         /\ GlobMatch(Tail(pat), Tail(f), recursive)

\* glob.glob(pattern, recursive=...) over the files of listing
glob_glob(listing, pattern, recursive) ==
    SelectSeq(listing, LAMBDA f : GlobMatch(pattern, f, recursive))

----------------------------------------------------------------------------
(* utils.py: resolve_classpath, resolve_file_list *)

RECURSIVE resolve_entries(_, _)
resolve_entries(entries, workspace_path) ==
    IF entries = <<>> THEN <<>>
    ELSE <<resolve_workspace_path(Head(entries), workspace_path)>>
         \o resolve_entries(Tail(entries), workspace_path)

resolve_classpath(cp, workspace_path) ==
    IF cp = <<>> THEN <<".">>
    ELSE str_join(resolve_entries(str_split(cp, ":"), workspace_path), ":")

RECURSIVE resolve_file_list(_, _, _)
resolve_file_list(listing, files, workspace_path) ==
    IF files = <<>> THEN <<>>
    ELSE LET file_path == Head(files)
             base_dir == resolve_workspace_path(os_path_dirname(file_path),
                                                workspace_path)
             pattern == os_path_join(base_dir, os_path_basename(file_path))
             here == IF has_star(file_path)
                     THEN glob_glob(listing, pattern, has_double_star(pattern))
                     ELSE <<resolve_workspace_path(file_path, workspace_path)>>
         IN  here \o resolve_file_list(listing, Tail(files), workspace_path)

----------------------------------------------------------------------------
(* The compiler as the environment: exit codes and diagnostics *)

WorkspacePath == <<".">>

PA == <<".", "/", "A.java">>
PB == <<".", "/", "B.java">>
PX == <<".", "/", "X.java">>

\* the files that can exist under the workspace; X.java is never an input
FsPaths == {PA, PB}

\* every enumeration glob.glob can produce of every subset of FsPaths
FileSystems ==
    {l \in SeqsUpTo(FsPaths, Cardinality(FsPaths)) :
        \A i, j \in 1..Len(l) : l[i] = l[j] => i = j}

\* the entries a source_files argument is made of
SourceSpecs == {<<"A.java">>, <<"B.java">>, <<"*.java">>}

\* the other arguments of java_compile
CompileArgs ==
    { [output_dir |-> <<"main", "/", "bin">>, classpath |-> <<>>,
       additional_classpath |-> <<>>],
      [output_dir |-> <<"/", "out">>,
       classpath |-> <<"a.jar", ":", "/", "lib", "/", "b.jar">>,
       additional_classpath |-> <<"x.jar">>] }

\* the exit codes of the first compiler run and of the retry
ExitCodes == {0, 1}
RetryExitCodes == {0, 2}

\* javac diagnostics: "<path>:<line>: error: <message>",
\* "<path>:<line>: warning: <message>" and the closing count "1 error"
ErrLine(p) == p \o <<":", "11", ":", " error", ":", " cannot find symbol">>
WarnLine(p) == p \o <<":", "11", ":", " warning", ":", " [removal] deprecated">>
SummaryLine == <<"1 error">>

DiagPaths == {PA, PB, PX}

DiagLines == {ErrLine(p) : p \in DiagPaths} \cup {WarnLine(p) : p \in DiagPaths}
             \cup {SummaryLine}

\* what the first invocation can write to standard error
Diagnostics == SeqsUpTo(DiagLines, MaxLines)

\* what the retry can write to standard error
RetryDiagnostics == {<<>>, <<WarnLine(PA)>>, <<ErrLine(PB), SummaryLine>>}

----------------------------------------------------------------------------
(* utils.py: run_command_stderr_from_file *)

\* the scratch file is read back whatever the exit code
stderr_read_always(returncode, std_err_file) == std_err_file

\* stderr_decoded: the scratch file is read back only after a non-zero exit
stderr_read(returncode, std_err_file) ==
    IF returncode # 0 THEN std_err_file ELSE <<>>

----------------------------------------------------------------------------
(* utils.py: compile_java_files *)

NoMatch == <<"no match">>

\* re.compile(r"(.*\.java):").search(line).group(1): the line up to the
\* last token ending in ".java" that a colon follows (".*" is greedy)
error_pattern_search(line) ==
    LET ends == {i \in 1..(Len(line) - 1) :
                    line[i] \in JavaNames /\ line[i + 1] = ":"}
    IN  IF ends = {} THEN NoMatch ELSE SubSeq(line, 1, Max(ends))

\* the loop over stderr_decoded.splitlines()
scan_error_files(text) ==
    {error_pattern_search(text[i]) : i \in 1..Len(text)} \ {NoMatch}

\* the files are retried whether or not they were implicated
retry_set_all(files, failed) == Range(files)

\* source_files = set(source_files) - error_files
retry_set(files, failed) == Range(files) \ failed

\* the empty-list test is never true
no_source_files_never(files) == FALSE

\* not source_files
no_source_files(files) == files = <<>>

Cmd(d, cp, files) == [d |-> d, cp |-> cp, files |-> files]

CalledProcessError(returncode, cmd, stderr) ==
    [status |-> "CalledProcessError", returncode |-> returncode,
     cmd |-> cmd, stderr |-> stderr]

\* the exit code of the retry is not looked at
after_retry_unchecked(returncode, cmd, stderr, compiled, failed) ==
    [status |-> "partial_success", compiled_files |-> compiled,
     failed_files |-> failed, stderr |-> stderr, cmd |-> cmd]

\* lines 166-178: what the call ends with once the retry has returned
after_retry(returncode, cmd, stderr, compiled, failed) ==
    IF returncode # 0
    THEN CalledProcessError(returncode, cmd, stderr)
    ELSE [status |-> "partial_success", compiled_files |-> compiled,
          failed_files |-> failed, stderr |-> stderr, cmd |-> cmd]

\* every order in which the elements of a set can be iterated
Orders(S) == {l \in [1..Cardinality(S) -> S] : Range(l) = S}

Running(cmd) ==
    [cmd |-> cmd, exited |-> FALSE, returncode |-> 0, std_err_file |-> <<>>,
     stderr_decoded |-> <<>>]

Exited(inv, returncode, std_err_file) ==
    [inv EXCEPT !.exited = TRUE,
                !.returncode = returncode,
                !.std_err_file = std_err_file,
                !.stderr_decoded = stderr_read(returncode, std_err_file)]

\* java_compile up to the first await of compile_java_files
java_compile(files, args) ==
    /\ pc = "idle"
    /\ LET rf == resolve_file_list(fs, files, WorkspacePath)
           cp0 == resolve_classpath(args.classpath, WorkspacePath)
           od == resolve_workspace_path(args.output_dir, WorkspacePath)
           cp == IF args.additional_classpath # <<>>
                 THEN cp0 \o <<":">> \o args.additional_classpath
                 ELSE cp0
       IN  /\ files_arg' = files
           /\ resolved_file' = rf
           /\ source_files' = rf
           /\ output_dir' = od
           /\ classpath' = cp
           /\ IF no_source_files(rf)
              THEN /\ outcome' = [status |-> "ValueError"]
                   /\ pc' = "done"
                   /\ UNCHANGED <<invocations, made_dirs>>
              ELSE /\ made_dirs' = made_dirs \cup {od}
                   /\ invocations' = <<Running(Cmd(od, cp, rf))>>
                   /\ pc' = "await1"
                   /\ UNCHANGED outcome
    /\ UNCHANGED <<fs, error_files, resolve_vars, server_vars,
                   pipeline_vars>>

\* the first compiler invocation returns: lines 141-163 and 179-185
first_invocation_returns(returncode, std_err_file) ==
    /\ pc = "await1"
    /\ LET inv == Exited(invocations[1], returncode, std_err_file)
           stderr_decoded == inv.stderr_decoded
           failed == scan_error_files(stderr_decoded)
           retry == retry_set(source_files, failed)
       IN  IF stderr_decoded # <<>>
           THEN /\ error_files' = failed
                /\ source_files' = retry
                /\ IF retry = {}
                   THEN /\ invocations' = <<inv>>
                        /\ outcome' = CalledProcessError(returncode, inv.cmd,
                                                         stderr_decoded)
                        /\ pc' = "done"
                   ELSE /\ \E order \in Orders(retry) :
                              invocations' =
                                  <<inv, Running(Cmd(output_dir, classpath, order))>>
                        /\ pc' = "await2"
                        /\ UNCHANGED outcome
           ELSE /\ invocations' = <<inv>>
                /\ outcome' = [status |-> "success",
                               compiled_files |-> source_files,
                               cmd |-> inv.cmd]
                /\ pc' = "done"
                /\ UNCHANGED <<error_files, source_files>>
    /\ UNCHANGED <<fs, files_arg, resolved_file, output_dir, classpath,
                   made_dirs, resolve_vars, server_vars,
                   pipeline_vars>>

\* the retry returns: lines 165-178
retry_returns(returncode, std_err_file) ==
    /\ pc = "await2"
    /\ LET inv == Exited(invocations[2], returncode, std_err_file)
       IN  /\ invocations' = <<invocations[1], inv>>
           /\ outcome' = after_retry(returncode, inv.cmd, inv.stderr_decoded,
                                     source_files, error_files)
           /\ pc' = "done"
    /\ UNCHANGED <<fs, files_arg, resolved_file, output_dir, classpath,
                   source_files, error_files, made_dirs, resolve_vars,
                   server_vars, pipeline_vars>>

CompileIdle ==
    /\ pc = "idle"
    /\ files_arg = <<>>
    /\ resolved_file = <<>>
    /\ output_dir = <<>>
    /\ classpath = <<>>
    /\ source_files = <<>>
    /\ error_files = {}
    /\ invocations = <<>>
    /\ made_dirs = {}
    /\ outcome = [status |-> "none"]

\* no path has been resolved yet
Unresolved == <<"unresolved">>

ResolveIdle == /\ rp_path = <<>> /\ rp_root = <<>> /\ rp_result = Unresolved

\* nothing has reached the caller yet
NoResponse == [kind |-> "none"]

\* no call has been made yet
NoOutcome == [status |-> "none"]

PipelineIdle ==
    /\ rf_files = <<>> /\ rf_root = <<>> /\ rf_result = Unresolved
    /\ cp_arg = <<>> /\ cp_env = <<>> /\ cp_result = Unresolved
    /\ jn_pc = "idle" /\ jn_args = <<>> /\ jn_cmd = <<>> /\ jn_proc = <<>>
    /\ jn_outcome = NoOutcome
    /\ cv_pc = "idle" /\ cv_args = <<>> /\ cv_cmd = <<>> /\ cv_proc = <<>>
    /\ cv_parsed = <<>> /\ cv_outcome = NoOutcome
    /\ sm_stdout = <<>> /\ sm_result = NoOutcome
    /\ xml_report = <<>> /\ xml_result = NoOutcome
    /\ cc_calls = <<>> /\ cc_files = {}

ServerIdle ==
    /\ sv_name = None /\ sv_arguments = None /\ sv_exit = None
    /\ sv_response = NoResponse

Init ==
    /\ CompileIdle
    /\ fs \in FileSystems
    /\ ResolveIdle
    /\ ServerIdle
    /\ PipelineIdle

Next ==
    \/ \E files \in SeqsUpTo(SourceSpecs, MaxSpecs), args \in CompileArgs :
           java_compile(files, args)
    \/ \E returncode \in ExitCodes, std_err_file \in Diagnostics :
           first_invocation_returns(returncode, std_err_file)
    \/ \E returncode \in RetryExitCodes, std_err_file \in RetryDiagnostics :
           retry_returns(returncode, std_err_file)

Spec == Init /\ [][Next]_vars

----------------------------------------------------------------------------
(* Path resolution on its own: utils.py and server.py resolve_workspace_path *)

\* CLIENT_WORKSPACE, the workspace root of the server when it is not set
client_workspace_path == <<".">>

\* server.py resolve_workspace_path; the module-level client_workspace_path
\* it reads is the second parameter
server_resolve_workspace_path(relative_path, workspace) ==
    IF os_path_isabs(relative_path) THEN relative_path
    ELSE os_path_join(workspace, relative_path)

PathTokens == {"/", "a", "b.java"}

\* the non-wildcard specs and the workspace roots of the resolution runs
PathInputs == SeqsUpTo(PathTokens, MaxPathLen)
RootInputs == SeqsUpTo(PathTokens, MaxRootLen)

utils_resolve(relative_path, workspace_path) ==
    /\ rp_result = Unresolved
    /\ rp_path' = relative_path
    /\ rp_root' = workspace_path
    /\ rp_result' = resolve_workspace_path(relative_path, workspace_path)
    /\ UNCHANGED <<compile_vars, server_vars, pipeline_vars>>

server_resolve(relative_path, workspace) ==
    /\ rp_result = Unresolved
    /\ rp_path' = relative_path
    /\ rp_root' = workspace
    /\ rp_result' = server_resolve_workspace_path(relative_path, workspace)
    /\ UNCHANGED <<compile_vars, server_vars, pipeline_vars>>

InitResolve ==
    /\ CompileIdle
    /\ fs = <<>>
    /\ ResolveIdle
    /\ ServerIdle
    /\ PipelineIdle

NextResolve ==
    \/ \E p \in PathInputs, w \in RootInputs : utils_resolve(p, w)
    \/ \E p \in PathInputs, w \in RootInputs : server_resolve(p, w)

SpecResolve == InitResolve /\ [][NextResolve]_vars

----------------------------------------------------------------------------
(* server.py: the tools and handle_call_tool *)

\* arguments.get(key, default) on a dict held as a record
Get(arguments, key, default) ==
    IF key \in DOMAIN arguments THEN arguments[key] ELSE default

Return(value) == [kind |-> "return", value |-> value]

Raise(exc) == [kind |-> "raise", exc |-> exc]

ValueError(message) == [type |-> "ValueError", message |-> message]

ProcessError(exit) ==
    [type |-> "CalledProcessError", returncode |-> exit.returncode,
     stderr |-> exit.stderr]

TextContent(text) == [type |-> "text", text |-> text]

\* server.py resolve_file_list, the code of utils.py resolve_file_list over
\* the module-level client_workspace_path
server_resolve_file_list(listing, files) ==
    resolve_file_list(listing, files, client_workspace_path)

\* server.py compile_java_files; exits are the exits of the compiler
\* subprocesses it awaits, in start order
server_compile_java_files(listing, files, exits) ==
    LET resolved_files == server_resolve_file_list(listing, files)
        failed == scan_error_files(exits[1].stderr)
        retry == Range(resolved_files) \ failed
    IN  IF resolved_files = <<>>
        THEN Raise(ValueError("No Java files found to compile"))
        ELSE IF exits[1].returncode # 0
        THEN IF retry = {}
             THEN Raise(ProcessError(exits[1]))
             ELSE IF exits[2].returncode # 0
             THEN Raise(ProcessError(exits[2]))
             ELSE Return(TextContent(
                      [msg |-> "Successfully compiled", compiled |-> retry,
                       failed |-> failed]))
        ELSE Return(TextContent(
                 [msg |-> "Successfully compiled",
                  count |-> Len(resolved_files)]))

server_java_compile(listing, arguments, exits) ==
    server_compile_java_files(listing, Get(arguments, "java_files", <<>>), exits)

server_junit_compile(listing, arguments, exits) ==
    server_compile_java_files(listing, Get(arguments, "java_test_files", <<>>),
                              exits)

server_run_junit(arguments, exits) ==
    IF exits[1].returncode # 0
    THEN Raise(ProcessError(exits[1]))
    ELSE Return(TextContent([msg |-> "JUnit test execution completed"]))

server_generate_coverage(arguments, exits) ==
    IF exits[1].returncode # 0
    THEN Raise(ProcessError(exits[1]))
    ELSE Return(TextContent([msg |-> "Coverage report generated successfully"]))

\* the try block of handle_call_tool: the tool the name selects
call_tool(listing, name, arguments, exits) ==
    IF name = "java_compile" THEN server_java_compile(listing, arguments, exits)
    ELSE IF name = "junit_compile"
    THEN server_junit_compile(listing, arguments, exits)
    ELSE IF name = "run_junit" THEN server_run_junit(arguments, exits)
    ELSE IF name = "generate_coverage"
    THEN server_generate_coverage(arguments, exits)
    ELSE Raise(ValueError("Unknown tool"))

Returned(payload) == [kind |-> "returned", payload |-> payload]

Raised(exc) == [kind |-> "raised", exc |-> exc]

\* the except clauses of handle_call_tool: "raise e" for a
\* CalledProcessError, an "Error: ..." text for any other exception
tool_response(result) ==
    IF result.kind = "return" THEN Returned(result.value)
    ELSE IF result.exc.type = "CalledProcessError" THEN Raised(result.exc)
    ELSE Returned(TextContent([msg |-> "Error", error |-> result.exc.message]))

ToolNames == {"java_compile", "junit_compile", "run_junit",
              "generate_coverage", "unknown_tool"}

\* a dict without keys; "not arguments" holds of it as it does of None
EmptyDict == [key \in {} |-> key]

\* the arguments of a call
ToolArguments ==
    { EmptyDict,
      [java_files |-> << <<"A.java">>, <<"B.java">> >>],
      [java_test_files |-> << <<"*.java">> >>],
      [package_name |-> "com.example"] }

ToolDiagnostics == {<<>>, <<ErrLine(PA), SummaryLine>>,
                    <<ErrLine(PA), ErrLine(PB)>>}

ToolExits == [returncode : ExitCodes, stderr : ToolDiagnostics]

handle_call_tool(name, arguments, exits) ==
    /\ sv_response = NoResponse
    /\ sv_name' = name
    /\ sv_arguments' = arguments
    /\ sv_exit' = exits
    /\ sv_response' =
          IF arguments = EmptyDict
          THEN Raised(ValueError("Missing arguments"))
          ELSE tool_response(call_tool(fs, name, arguments, exits))
    /\ UNCHANGED <<compile_vars, resolve_vars, pipeline_vars>>

----------------------------------------------------------------------------
(* src/java_test_mcp/server.py: the earlier draft of the dispatcher *)

\* MCP_WORKSPACE, the workspace root of the draft when it is not set
client_workspace == <<>>

draft_resolve_client_path(relative_path) ==
    IF os_path_isabs(relative_path) THEN relative_path
    ELSE os_path_join(client_workspace, relative_path)

RECURSIVE draft_resolve_file_list(_, _)
draft_resolve_file_list(listing, files) ==
    IF files = <<>> THEN <<>>
    ELSE LET file_path == Head(files)
             base_dir == draft_resolve_client_path(os_path_dirname(file_path))
             pattern == os_path_join(base_dir, os_path_basename(file_path))
             here == IF has_star(file_path)
                     THEN glob_glob(listing, pattern, FALSE)
                     ELSE <<draft_resolve_client_path(file_path)>>
         IN  here \o draft_resolve_file_list(listing, Tail(files))

\* compile_java and compile_junit: one compiler run, no retry
draft_compile(listing, files, exits) ==
    LET resolved_files == draft_resolve_file_list(listing, files)
    IN  IF resolved_files = <<>>
        THEN Raise(ValueError("No Java files found to compile"))
        ELSE IF exits[1].returncode # 0
        THEN Raise(ProcessError(exits[1]))
        ELSE Return(TextContent(
                 [msg |-> "Successfully compiled",
                  count |-> Len(resolved_files)]))

draft_call_tool(listing, name, arguments, exits) ==
    IF name = "compile_java"
    THEN draft_compile(listing, Get(arguments, "java_files", <<>>), exits)
    ELSE IF name = "compile_junit"
    THEN draft_compile(listing, Get(arguments, "java_test_files", <<>>), exits)
    ELSE IF name = "run_junit" THEN server_run_junit(arguments, exits)
    ELSE IF name = "generate_coverage"
    THEN server_generate_coverage(arguments, exits)
    ELSE Raise(ValueError("Unknown tool"))

\* the except clauses of the draft: a CalledProcessError becomes a text
\* with the exit code and the standard error
draft_tool_response(result) ==
    IF result.kind = "return" THEN Returned(result.value)
    ELSE IF result.exc.type = "CalledProcessError"
    THEN Returned(TextContent(
             [msg |-> "Command failed with exit code",
              returncode |-> result.exc.returncode,
              stderr |-> result.exc.stderr]))
    ELSE Returned(TextContent([msg |-> "Error", error |-> result.exc.message]))

DraftToolNames == {"compile_java", "compile_junit", "run_junit",
                   "generate_coverage", "unknown_tool"}

draft_handle_call_tool(name, arguments, exits) ==
    /\ sv_response = NoResponse
    /\ sv_name' = name
    /\ sv_arguments' = arguments
    /\ sv_exit' = exits
    /\ sv_response' =
          IF arguments = EmptyDict
          THEN Raised(ValueError("Missing arguments"))
          ELSE draft_tool_response(draft_call_tool(fs, name, arguments, exits))
    /\ UNCHANGED <<compile_vars, resolve_vars, pipeline_vars>>

InitServer ==
    /\ CompileIdle
    /\ fs = <<PA, PB>>
    /\ ResolveIdle
    /\ ServerIdle
    /\ PipelineIdle

NextServer ==
    \/ \E name \in ToolNames, arguments \in ToolArguments,
          exits \in [1..2 -> ToolExits] :
           handle_call_tool(name, arguments, exits)
    \/ \E name \in DraftToolNames, arguments \in ToolArguments,
          exits \in [1..2 -> ToolExits] :
           draft_handle_call_tool(name, arguments, exits)

SpecServer == InitServer /\ [][NextServer]_vars

----------------------------------------------------------------------------
(* Vocabulary of the properties of compile *)

Inputs == Range(resolved_file)

Started == invocations # <<>>

FirstExited == Started /\ invocations[1].exited

FirstFailed == FirstExited /\ invocations[1].returncode # 0

Retried == Len(invocations) = 2

RetryExited == Retried /\ invocations[2].exited

\* the line has the shape "<path>:<line>: error:" for path p
ErrorShaped(line, p) ==
    /\ Len(line) >= Len(p) + 5
    /\ SubSeq(line, 1, Len(p)) = p
    /\ line[Len(p) + 1] = ":"
    /\ line[Len(p) + 2] = "11"
    /\ line[Len(p) + 3] = ":"
    /\ line[Len(p) + 4] = " error"
    /\ line[Len(p) + 5] = ":"

\* the paths that at least one error line of the text names
Implicated(text) ==
    {p \in DiagPaths : \E i \in 1..Len(text) : ErrorShaped(text[i], p)}

\* C1: when the first invocation fails, its diagnostics implicate a strict,
\* non-empty subset F of the inputs and no retry fails, the call ends with
\* partial_success, compiled = inputs - F, failed = F, after a second
\* invocation over exactly inputs - F with the output directory and
\* classpath of the first.
C1_RetryGivesPartialSuccess ==
    LET F == Implicated(invocations[1].std_err_file)
    IN  ( /\ pc = "done"
          /\ FirstFailed
          /\ F # {} /\ F \subseteq Inputs /\ F # Inputs
          /\ ~(RetryExited /\ invocations[2].returncode # 0) )
        => /\ outcome.status = "partial_success"
           /\ outcome.compiled_files = Inputs \ F
           /\ outcome.failed_files = F
           /\ Retried
           /\ Range(invocations[2].cmd.files) = Inputs \ F
           /\ invocations[2].cmd.d = invocations[1].cmd.d
           /\ invocations[2].cmd.cp = invocations[1].cmd.cp

\* C2: when the first invocation fails and error lines implicate every
\* input, the call has ended with CalledProcessError carrying the exit code
\* and the diagnostics of that invocation, and the compiler ran once.
C2_AllImplicatedFailsWithoutRetry ==
    ( /\ FirstFailed
      /\ Inputs \subseteq Implicated(invocations[1].std_err_file) )
    => /\ pc = "done"
       /\ outcome.status = "CalledProcessError"
       /\ outcome.returncode = invocations[1].returncode
       /\ outcome.stderr = invocations[1].std_err_file
       /\ Len(invocations) = 1

C2_Witness ==
    /\ pc = "done"
    /\ FirstFailed
    /\ Cardinality(Inputs) = 2
    /\ Inputs \subseteq Implicated(invocations[1].std_err_file)
    /\ outcome.status = "CalledProcessError"

\* C3: the compiler is started at most twice; a second start follows a
\* failed first invocation and runs the non-empty rest of the inputs; a
\* failed retry ends the call with CalledProcessError.
C3_AtMostOneRetry ==
    /\ Len(invocations) <= 2
    /\ Retried =>
          /\ FirstFailed
          /\ Range(invocations[2].cmd.files) # {}
          /\ Range(invocations[2].cmd.files) = Inputs \ error_files
    /\ (RetryExited /\ invocations[2].returncode # 0) =>
          /\ pc = "done"
          /\ outcome.status = "CalledProcessError"
          /\ outcome.returncode = invocations[2].returncode
    /\ pc = "done" => \A i \in 1..Len(invocations) :
                          invocations[i].exited

C3_Witness ==
    /\ pc = "done"
    /\ RetryExited
    /\ invocations[1].returncode = 1
    /\ invocations[2].returncode = 2
    /\ outcome.status = "CalledProcessError"
    /\ outcome.returncode = 2

\* C4: the stderr of a partial_success is the standard error of the first
\* invocation.
C4_PartialSuccessKeepsFirstDiagnostics ==
    (pc = "done" /\ outcome.status = "partial_success")
    => outcome.stderr = invocations[1].std_err_file

\* C5: once the failed run is scanned, a path is in error_files if and only
\* if an error line of the diagnostics names it; a file named only in
\* warning lines is retried.
C5_ImplicatedIffErrorLine ==
    (FirstFailed /\ invocations[1].std_err_file # <<>>)
    => /\ \A p \in DiagPaths :
              p \in error_files
              <=> p \in Implicated(invocations[1].std_err_file)
       /\ \A p \in Inputs \ Implicated(invocations[1].std_err_file) :
              p \in source_files

\* C6: an empty resolved file list ends the call with ValueError before
\* any compiler is started.
C6_EmptyInputIsInvalid ==
    (pc # "idle" /\ resolved_file = <<>>)
    => /\ pc = "done"
       /\ outcome.status = "ValueError"
       /\ invocations = <<>>

C6_Witness ==
    /\ pc = "done"
    /\ files_arg = << <<"*.java">>, <<"*.java">> >>
    /\ fs = <<>>
    /\ resolved_file = <<>>
    /\ outcome.status = "ValueError"

\* C7: a first invocation that exits with 0 ends the call with success,
\* compiled being the resolved list, after that one invocation, whatever
\* it wrote to standard error.
C7_CleanExitIsSuccess ==
    (FirstExited /\ invocations[1].returncode = 0)
    => /\ pc = "done"
       /\ outcome.status = "success"
       /\ outcome.compiled_files = resolved_file
       /\ Len(invocations) = 1

C7_Witness ==
    /\ pc = "done"
    /\ FirstExited
    /\ invocations[1].returncode = 0
    /\ invocations[1].std_err_file = <<WarnLine(PA), WarnLine(PB)>>
    /\ outcome.status = "success"

\* C8: a call that ended with success or partial_success made a last
\* compiler invocation that exited with 0.
C8_FailureNeverSwallowed ==
    (pc = "done" /\ outcome.status \in {"success", "partial_success"})
    => invocations[Len(invocations)].returncode = 0

\* C10: the resolved path of an absolute spec is the spec, whatever the
\* root; the resolved path of a relative spec is the root, one separator
\* unless the root is empty or ends with one, and the spec.
C10_ResolveAbsoluteOrJoined ==
    rp_result # Unresolved =>
        IF rp_path # <<>> /\ Head(rp_path) = "/"
        THEN rp_result = rp_path
        ELSE \E sep \in {<<>>, <<"/">>} :
                /\ rp_result = rp_root \o sep \o rp_path
                /\ sep = <<>> <=> (rp_root = <<>> \/ rp_root[Len(rp_root)] = "/")

C10_Witness ==
    /\ rp_path = <<"/", "b.java">>
    /\ rp_root = <<"/", "a">>
    /\ rp_result = <<"/", "b.java">>

\* the tool the call selects, in either dispatcher, fails on a non-zero
\* exit of a subprocess it started
ToolFailed(name, arguments, exits) ==
    LET result == IF name \in ToolNames
                  THEN call_tool(fs, name, arguments, exits)
                  ELSE draft_call_tool(fs, name, arguments, exits)
    IN  result.kind = "raise" /\ result.exc.type = "CalledProcessError"

\* C9: when the subprocess of a tool exits non-zero and the tool fails on
\* it, the caller gets a returned payload holding that exit code and the
\* diagnostic text; nothing is raised to the caller.
C9_ProcessFailureIsReturned ==
    ( /\ sv_response.kind # "none"
      /\ DOMAIN sv_arguments # {}
      /\ ToolFailed(sv_name, sv_arguments, sv_exit) )
    => /\ sv_response.kind = "returned"
       /\ \E i \in 1..2 :
             /\ sv_exit[i].returncode # 0
             /\ sv_response.payload.text.returncode = sv_exit[i].returncode
             /\ sv_response.payload.text.stderr = sv_exit[i].stderr

----------------------------------------------------------------------------
(* File-list resolution on its own: utils.py resolve_file_list *)

PSX == <<".", "/", "sub", "/", "X.java">>

\* the source files that can exist under the workspace, one directory deep
TreePaths == {PA, PB, PSX}

\* glob.glob lists a directory before it descends: the files of the
\* workspace directory come before the files of sub/, in any scandir order
TreeListings ==
    {l \in SeqsUpTo(TreePaths, Cardinality(TreePaths)) :
        /\ \A i, j \in 1..Len(l) : l[i] = l[j] => i = j
        /\ \A i, j \in 1..Len(l) : Len(l[i]) < Len(l[j]) => i < j}

\* the entries of a files argument: plain names, an absolute path, and
\* single-level and recursive wildcards
FileSpecs ==
    { <<"A.java">>, <<"X.java">>, <<"/", "abs", "/", "A.java">>,
      <<"*.java">>, <<"sub", "/", "*.java">>, <<"**", "/", "*.java">>,
      <<"lib", "/", "*.java">> }

resolve_files(files, workspace_path) ==
    /\ rf_result = Unresolved
    /\ rf_files' = files
    /\ rf_root' = workspace_path
    /\ rf_result' = resolve_file_list(fs, files, workspace_path)
    /\ UNCHANGED <<compile_vars, resolve_vars, server_vars, classpath_vars,
                   junit_vars, coverage_vars, parse_vars,
                   concurrent_vars>>

InitFiles ==
    /\ CompileIdle
    /\ fs \in TreeListings
    /\ ResolveIdle
    /\ ServerIdle
    /\ PipelineIdle

NextFiles ==
    \E files \in SeqsUpTo(FileSpecs, MaxSpecs) :
        resolve_files(files, WorkspacePath)

SpecFiles == InitFiles /\ [][NextFiles]_vars

----------------------------------------------------------------------------
(* C11 *)

\* the files a wildcard spec stands for under the workspace "."
MatchedBy(file_spec) ==
    IF file_spec = <<"*.java">> THEN {PA, PB}
    ELSE IF file_spec = <<"sub", "/", "*.java">> THEN {PSX}
    ELSE IF file_spec = <<"**", "/", "*.java">> THEN {PA, PB, PSX}
    ELSE {}

IsWildcard(file_spec) == \E i \in 1..Len(file_spec) : file_spec[i] \in WildTokens

\* what one spec contributes: its matches as the file system enumerates
\* them, or its own path, under the workspace unless it is absolute
Contribution(file_spec) ==
    IF IsWildcard(file_spec)
    THEN SelectSeq(fs, LAMBDA f : f \in MatchedBy(file_spec))
    ELSE IF file_spec[1] = "/" THEN <<file_spec>>
    ELSE <<rf_root \o <<"/">> \o file_spec>>

\* C11: the resolved list is cut into one consecutive piece per spec, in
\* input order, and the piece of a spec is its contribution: one path for a
\* non-wildcard spec whether or not the file exists, the matches in
\* enumeration order (possibly none) for a wildcard spec
C11_ListIsConcatenationOfContributions ==
    rf_result # Unresolved =>
        \E cut \in [0..Len(rf_files) -> 0..Len(rf_result)] :
            /\ cut[0] = 0
            /\ cut[Len(rf_files)] = Len(rf_result)
            /\ \A i \in 1..Len(rf_files) :
                   /\ cut[i - 1] <= cut[i]
                   /\ SubSeq(rf_result, cut[i - 1] + 1, cut[i])
                        = Contribution(rf_files[i])

\* a wildcard with two matches enumerated B before A, next to a plain spec
\* whose file does not exist
C11_Witness ==
    /\ rf_result # Unresolved
    /\ fs = <<PB, PA>>
    /\ rf_files = <<<<"*.java">>, <<"X.java">>>>
    /\ rf_result = <<PB, PA, PX>>

----------------------------------------------------------------------------
(* Classpath resolution on its own: utils.py resolve_classpath, server.py
   resolve_classpath with its module-level default_class_path, and the
   resolve_classpath of the earlier server.py *)

\* server.py lines 18 and 32-37: default_class_path after the module has
\* been imported; classpath_str is what classspath_from_pom returned
server_default_class_path(DEFAULT_CLASSPATH_PATH, POM_XML_PATH, classpath_str) ==
    IF POM_XML_PATH THEN classpath_str ELSE DEFAULT_CLASSPATH_PATH

\* server.py resolve_classpath; the module-level default_class_path it reads
\* is the second parameter
server_resolve_classpath(cp, default_class_path) ==
    IF cp = <<>>
    THEN IF default_class_path # <<>> THEN default_class_path ELSE <<".">>
    ELSE LET resolved_classpath ==
                 str_join(resolve_entries(str_split(cp, ":"),
                                          client_workspace_path), ":")
         IN  IF default_class_path # <<>>
             THEN resolved_classpath \o <<":">> \o default_class_path
             ELSE resolved_classpath

\* the earlier server.py resolve_classpath: the loop over the entries
RECURSIVE draft_resolved_entries(_, _)
draft_resolved_entries(listing, entries) ==
    IF entries = <<>> THEN <<>>
    ELSE LET entry == Head(entries)
             base_dir == draft_resolve_client_path(os_path_dirname(entry))
             pattern == os_path_basename(entry)
             here == IF has_star(entry)
                     THEN glob_glob(listing, os_path_join(base_dir, pattern),
                                    FALSE)
                     ELSE <<draft_resolve_client_path(entry)>>
         IN  here \o draft_resolved_entries(listing, Tail(entries))

draft_resolve_classpath(listing, cp) ==
    IF cp = <<>> THEN <<".">>
    ELSE str_join(draft_resolved_entries(listing, str_split(cp, ":")), ":")

\* the jars that can exist in lib/ under the working directory, in every
\* order glob.glob can enumerate them
JarListings ==
    {l \in SeqsUpTo({<<"lib", "/", "x.jar">>, <<"lib", "/", "y.jar">>}, 2) :
        \A i, j \in 1..Len(l) : l[i] = l[j] => i = j}

\* the classpath argument of a tool call
ClasspathArgs ==
    { <<>>, <<"a.jar">>, <<"/", "opt", "/", "b.jar">>, <<"lib", "/", "*">>,
      <<"a.jar", ":", "lib", "/", "*">>, <<"lib", "/", "*", ":", "a.jar">> }

Environment(module, workspace, env_default, env_pom, classpath_str) ==
    [module |-> module, workspace |-> workspace,
     DEFAULT_CLASSPATH_PATH |-> env_default,
     POM_XML_PATH |-> env_pom, classpath_str |-> classpath_str]

utils_resolve_classpath(cp) ==
    /\ cp_result = Unresolved
    /\ cp_arg' = cp
    /\ cp_env' = Environment("utils", WorkspacePath, <<>>, FALSE, <<>>)
    /\ cp_result' = resolve_classpath(cp, WorkspacePath)
    /\ UNCHANGED <<compile_vars, resolve_vars, server_vars, files_vars,
                   junit_vars, coverage_vars, parse_vars,
                   concurrent_vars>>

server_resolve_classpath_call(cp, env_default, env_pom, classpath_str) ==
    /\ cp_result = Unresolved
    /\ cp_arg' = cp
    /\ cp_env' = Environment("server", client_workspace_path,
                             env_default, env_pom,
                             IF env_pom THEN classpath_str ELSE <<>>)
    /\ cp_result' = server_resolve_classpath(cp,
                        server_default_class_path(env_default, env_pom,
                                                  classpath_str))
    /\ UNCHANGED <<compile_vars, resolve_vars, server_vars, files_vars,
                   junit_vars, coverage_vars, parse_vars,
                   concurrent_vars>>

draft_resolve_classpath_call(cp) ==
    /\ cp_result = Unresolved
    /\ cp_arg' = cp
    /\ cp_env' = Environment("draft", client_workspace, <<>>, FALSE, <<>>)
    /\ cp_result' = draft_resolve_classpath(fs, cp)
    /\ UNCHANGED <<compile_vars, resolve_vars, server_vars, files_vars,
                   junit_vars, coverage_vars, parse_vars,
                   concurrent_vars>>

InitClasspath ==
    /\ CompileIdle
    /\ fs \in JarListings
    /\ ResolveIdle
    /\ ServerIdle
    /\ PipelineIdle

NextClasspath ==
    \/ \E cp \in ClasspathArgs : utils_resolve_classpath(cp)
    \/ \E cp \in ClasspathArgs, d \in {<<>>, <<"d.jar">>}, pom \in BOOLEAN,
          m \in {<<>>, <<"/", "m2", "/", "m.jar">>} :
           server_resolve_classpath_call(cp, d, pom, m)
    \/ \E cp \in ClasspathArgs : draft_resolve_classpath_call(cp)

SpecClasspath == InitClasspath /\ [][NextClasspath]_vars

----------------------------------------------------------------------------
(* C12 *)

\* a path under the workspace the module resolves against
UnderWorkspace(p) ==
    IF p[1] = "/" THEN p
    ELSE IF cp_env.workspace = <<>> THEN p
    ELSE cp_env.workspace \o <<"/">> \o p

RECURSIVE UnderWorkspaceAll(_)
UnderWorkspaceAll(paths) ==
    IF paths = <<>> THEN <<>>
    ELSE <<UnderWorkspace(Head(paths))>> \o UnderWorkspaceAll(Tail(paths))

\* what the classpath entries stand for: lib/* for the jars of lib/ as the
\* file system enumerates them, any other entry for its own path
RECURSIVE ExpandedEntries(_)
ExpandedEntries(entries) ==
    IF entries = <<>> THEN <<>>
    ELSE (IF Head(entries) = <<"lib", "/", "*">>
          THEN UnderWorkspaceAll(fs)
          ELSE <<UnderWorkspace(Head(entries))>>)
         \o ExpandedEntries(Tail(entries))

\* the configured extras that follow the explicit entries
ConfiguredExtras ==
    IF cp_env.module # "server" THEN {<<>>}
    ELSE {<<>>} \cup {<<":">> \o x : x \in
             {cp_env.DEFAULT_CLASSPATH_PATH, cp_env.classpath_str,
              cp_env.DEFAULT_CLASSPATH_PATH \o <<":">> \o cp_env.classpath_str}
             \ {<<>>}}

\* C12: a non-empty explicit classpath resolves to its entries in input
\* order, every wildcard entry replaced at its position by its matches in
\* enumeration order, followed by the configured extras
C12_WildcardEntriesAreExpanded ==
    (cp_result # Unresolved /\ cp_arg # <<>>) =>
        \E extras \in ConfiguredExtras :
            cp_result = str_join(ExpandedEntries(str_split(cp_arg, ":")), ":")
                          \o extras

----------------------------------------------------------------------------
(* C14 *)

RECURSIVE Contains(_, _)
Contains(text, part) ==
    /\ Len(text) >= Len(part)
    /\ \/ SubSeq(text, 1, Len(part)) = part
       \/ Contains(Tail(text), part)

\* C14: with no explicit classpath the result carries the configured
\* DEFAULT_CLASSPATH_PATH when there is one, and is "." only when neither a
\* default classpath nor a pom classpath is configured
C14_EmptyExplicitGivesConfiguredDefault ==
    (cp_result # Unresolved /\ cp_arg = <<>>) =>
        /\ cp_env.DEFAULT_CLASSPATH_PATH # <<>> =>
               Contains(cp_result, cp_env.DEFAULT_CLASSPATH_PATH)
        /\ (cp_env.DEFAULT_CLASSPATH_PATH = <<>> /\ cp_env.classpath_str = <<>>)
               => cp_result = <<".">>

----------------------------------------------------------------------------
(* utils.py junit_result_summary.  A line of the test runner's output is a
   sequence of tokens: "[", "]", a space, a run of digits, a word, or any
   other text *)

DigitTokens == {"3", "5"}
WordTokens == {"tests", "found"}

\* int() of a run of digits
RECURSIVE int(_)
int(digits) ==
    IF digits = <<>> THEN 0
    ELSE 10 * int(SubSeq(digits, 1, Len(digits) - 1))
         + (IF digits[Len(digits)] = "3" THEN 3 ELSE 5)

\* the token is matched by \s, by \d or by [\w\s]
InClass(t, class) ==
    IF class = "\\s" THEN t = " "
    ELSE IF class = "\\d" THEN t \in DigitTokens
    ELSE t \in WordTokens \cup DigitTokens \cup {" "}

\* the number of tokens of line, from position i on, that a greedy class*
\* consumes
RECURSIVE Run(_, _, _)
Run(line, i, class) ==
    IF i <= Len(line) /\ InClass(line[i], class)
    THEN 1 + Run(line, i + 1, class)
    ELSE 0

\* str.strip() of a run of words and spaces
RECURSIVE strip(_)
strip(text) ==
    IF text # <<>> /\ text[1] = " " THEN strip(Tail(text))
    ELSE IF text # <<>> /\ text[Len(text)] = " "
    THEN strip(SubSeq(text, 1, Len(text) - 1))
    ELSE text

NoSummary == [matched |-> FALSE, value |-> <<>>, key |-> <<>>]

\* re.match(r"\[\s*(\d+)\s+([\w\s]+)\s*\]", line): "[" first, spaces, one
\* run of digits, at least one space, a non-empty run of words and spaces,
\* "]"; whatever follows the "]" is not looked at.  The run of digits stops
\* at the first space and the run of words and spaces at the first token
\* that is neither, which has to be the "]"
summary_pattern_match(line) ==
    IF line = <<>> \/ line[1] # "[" THEN NoSummary
    ELSE LET d == 2 + Run(line, 2, "\\s")
             w == d + Run(line, d, "\\d")
             close == w + Run(line, w, "[\\w\\s]")
         IN  IF /\ w > d
                /\ close >= w + 2
                /\ line[w] = " "
                /\ close <= Len(line)
                /\ line[close] = "]"
             THEN [matched |-> TRUE, value |-> SubSeq(line, d, w - 1),
                   key |-> SubSeq(line, w, close - 1)]
             ELSE NoSummary

\* result[key.strip()] = int(value) on a dict held as a set of pairs
SetItem(result, key, value) ==
    {kv \in result : kv[1] # key} \cup {<<key, value>>}

RECURSIVE junit_result_summary_from(_, _)
junit_result_summary_from(lines, result) ==
    IF lines = <<>> THEN result
    ELSE LET match == summary_pattern_match(Head(lines))
         IN  junit_result_summary_from(Tail(lines),
                 IF match.matched
                 THEN SetItem(result, strip(match.key), int(match.value))
                 ELSE result)

junit_result_summary(stdout_str) == junit_result_summary_from(stdout_str, {})

----------------------------------------------------------------------------
(* Python float arithmetic (IEEE 754 binary64, round to nearest, ties to
   even) on the values parse_coverage_report computes.  A positive float is
   a significand of 53 bits and the exponent of its last bit: the value is
   significand * 2^exp.  The significand is held in three limbs,
   hi * 2^36 + mid * 2^18 + lo, with mid and lo below 2^18 *)

Limb == 2^18

\* the least k with a * 2^k >= d
RECURSIVE Normalise(_, _)
Normalise(a, d) == IF a >= d THEN 0 ELSE 1 + Normalise(2 * a, d)

\* significand + 1 when up, renormalised when it reaches 2^53
RoundUp(hi, mid, lo, up, exp) ==
    LET lo1 == IF up THEN lo + 1 ELSE lo
        mid1 == mid + lo1 \div Limb
        hi1 == hi + mid1 \div Limb
    IN  IF hi1 >= 2^17
        THEN [hi |-> 2^16, mid |-> 0, lo |-> 0, exp |-> exp + 1]
        ELSE [hi |-> hi1, mid |-> mid1 % Limb, lo |-> lo1 % Limb, exp |-> exp]

\* a / d for integers 0 < a <= d < 2^13: 53 quotient bits by long division,
\* 17 bits in hi and 18 in mid and in lo, then the bit after them and what
\* is left decide the rounding
float_div(a, d) ==
    LET k == Normalise(a, d)
        r0 == a * 2^k - d
        hi == 2^16 + (r0 * 2^16) \div d
        r1 == (r0 * 2^16) % d
        mid == (r1 * Limb) \div d
        r2 == (r1 * Limb) % d
        lo == (r2 * Limb) \div d
        r3 == (r2 * Limb) % d
        guard == 2 * r3 >= d
        rest == IF guard THEN 2 * r3 - d ELSE 2 * r3
        up == guard /\ (rest # 0 \/ lo % 2 = 1)
    IN  RoundUp(hi, mid, lo, up, -k - 52)

\* the exact product significand * 100, of 59 or 60 bits, in three limbs
Times100(x) ==
    LET lo == x.lo * 100
        mid == x.mid * 100 + lo \div Limb
        hi == x.hi * 100 + mid \div Limb
    IN  [hi |-> hi, mid |-> mid % Limb, lo |-> lo % Limb]

\* x * 100: the exact product cut back to 53 bits
float_times_100(x) ==
    LET product == Times100(x)
        drop == IF product.hi >= 2^23 THEN 7 ELSE 6
        hi == product.hi \div 2^drop
        mid == product.mid \div 2^drop
                 + (product.hi % 2^drop) * 2^(18 - drop)
        lo == product.lo \div 2^drop
                 + (product.mid % 2^drop) * 2^(18 - drop)
        guard == (product.lo \div 2^(drop - 1)) % 2 = 1
        rest == product.lo % 2^(drop - 1)
        up == guard /\ (rest # 0 \/ lo % 2 = 1)
    IN  RoundUp(hi, mid, lo, up, x.exp + drop)

\* round(x, 2) for 0 < x <= 100, in hundredths: the exact value of x * 100
\* rounded to an integer, ties to even.  x * 100 is below 2^60 and has
\* -x.exp >= 46 bits after the binary point, all of mid and lo among them
round2(x) ==
    LET product == Times100(x)
        point == -x.exp - 36
    IN  IF point > 24 THEN 0
        ELSE LET whole == product.hi \div 2^point
                 guard == (product.hi \div 2^(point - 1)) % 2 = 1
                 rest == \/ product.hi % 2^(point - 1) # 0
                         \/ product.mid # 0
                         \/ product.lo # 0
                 up == guard /\ (rest \/ whole % 2 = 1)
             IN  IF up THEN whole + 1 ELSE whole

\* round((line_covered / line_coverage) * 100 if line_coverage > 0 else 0, 2)
\* in hundredths of a percent
coverage_percentage(line_covered, line_coverage) ==
    IF line_coverage > 0 /\ line_covered > 0
    THEN round2(float_times_100(float_div(line_covered, line_coverage)))
    ELSE 0

----------------------------------------------------------------------------
(* utils.py parse_coverage_report.  The report is the sequence of its
   package elements, a package the sequence of its class elements, a class
   the sequence of its counter elements.  A dict is a set of <<key, value>>
   pairs *)

\* the first counter of type LINE, as the loop with its break finds it
first_line_counter(counters) ==
    LET at == {i \in 1..Len(counters) : counters[i].type = "LINE"}
    IN  IF at = {} THEN 0 ELSE CHOOSE i \in at : \A j \in at : i <= j

\* lines 365-380: the entry of one class element
class_entry(class_element) ==
    LET i == first_line_counter(class_element.counters)
        line_coverage == IF i = 0 THEN 0
                         ELSE class_element.counters[i].missed
                              + class_element.counters[i].covered
        line_covered == IF i = 0 THEN 0
                        ELSE class_element.counters[i].covered
    IN  [coverage_percentage |-> coverage_percentage(line_covered,
                                                     line_coverage),
         lines_covered |-> line_covered,
         total_lines |-> line_coverage]

RECURSIVE classes_data(_, _)
classes_data(classes, data) ==
    IF classes = <<>> THEN data
    ELSE classes_data(Tail(classes),
                      SetItem(data, Head(classes).name,
                              class_entry(Head(classes))))

RECURSIVE packages_data(_, _)
packages_data(packages, coverage_data) ==
    IF packages = <<>> THEN coverage_data
    ELSE packages_data(Tail(packages),
                       SetItem(coverage_data, Head(packages).name,
                               classes_data(Head(packages).classes, {})))

parse_coverage_report(report) == packages_data(report, {})

\* the elements of a report
LineCounter(missed, covered) ==
    [type |-> "LINE", missed |-> missed, covered |-> covered]

Class(name, counters) == [name |-> name, counters |-> counters]
Package(name, classes) == [name |-> name, classes |-> classes]

----------------------------------------------------------------------------
(* run_junit: utils.py and server.py.  A command is a sequence of
   arguments, an argument a sequence of tokens *)

MaxClasses == 2

\* the default build_path of utils.py, workspace_path (JAVA_BUILD_WORKSPACE)
\* of server.py
build_path == <<".", "/", "junit_jacoco_jar_path">>

\* f"{package_name}.*" if package_name else ".*"
junit_includes(package_name) ==
    IF package_name # <<>> THEN package_name \o <<".*">> ELSE <<".*">>

\* test_class.startswith(package_name)
startswith(text, prefix) ==
    Len(text) >= Len(prefix) /\ SubSeq(text, 1, Len(prefix)) = prefix

\* utils.py run_junit lines 280-285
RECURSIVE select_class(_, _)
select_class(package_name, test_classes) ==
    IF test_classes = <<>> THEN <<>>
    ELSE LET test_class == Head(test_classes)
         IN  (IF package_name # <<>> /\ ~startswith(test_class, package_name)
              THEN <<<<"--select-class">>,
                     package_name \o <<".">> \o test_class>>
              ELSE <<<<"--select-class">>, test_class>>)
             \o select_class(package_name, Tail(test_classes))

\* utils.py run_junit lines 257-288 with the scan added to the selection
run_junit_cmd_scan_too(a) ==
    LET target_dir == resolve_workspace_path(a.target_dir, WorkspacePath)
        test_dir == resolve_workspace_path(a.test_dir, WorkspacePath)
        resolved == resolve_classpath(a.classpath, WorkspacePath)
        cp == IF a.additional_classpath # <<>>
              THEN resolved \o <<":">> \o a.additional_classpath
              ELSE resolved
        jar_path == os_path_join(a.build_path, <<"junit.jar">>)
        all_classpath == cp \o <<":">> \o target_dir \o <<":">> \o test_dir
                            \o <<":">> \o jar_path
    IN  << <<"java">>,
           <<"-javaagent:">>
               \o os_path_join(a.build_path, <<"jacocoagent.jar">>)
               \o <<"=destfile=">> \o os_path_join(a.build_path, a.jacoco_exec)
               \o <<",includes=">> \o junit_includes(a.package_name),
           <<"-cp">>, all_classpath,
           <<"org.junit.platform.console.ConsoleLauncher">> >>
        \o select_class(a.package_name, a.test_classes)
        \o <<<<"--scan-classpath">>, test_dir>>

\* utils.py run_junit lines 257-288: cmd
run_junit_cmd(a) ==
    LET target_dir == resolve_workspace_path(a.target_dir, WorkspacePath)
        test_dir == resolve_workspace_path(a.test_dir, WorkspacePath)
        resolved == resolve_classpath(a.classpath, WorkspacePath)
        cp == IF a.additional_classpath # <<>>
              THEN resolved \o <<":">> \o a.additional_classpath
              ELSE resolved
        jar_path == os_path_join(a.build_path, <<"junit.jar">>)
        all_classpath == cp \o <<":">> \o target_dir \o <<":">> \o test_dir
                            \o <<":">> \o jar_path
    IN  << <<"java">>,
           <<"-javaagent:">>
               \o os_path_join(a.build_path, <<"jacocoagent.jar">>)
               \o <<"=destfile=">> \o os_path_join(a.build_path, a.jacoco_exec)
               \o <<",includes=">> \o junit_includes(a.package_name),
           <<"-cp">>, all_classpath,
           <<"org.junit.platform.console.ConsoleLauncher">> >>
        \o (IF a.test_classes # <<>>
            THEN select_class(a.package_name, a.test_classes)
            ELSE <<<<"--scan-classpath">>, test_dir>>)

\* server.py run_junit lines 318-320
RECURSIVE server_select_class(_, _)
server_select_class(package_name, test_classes) ==
    IF test_classes = <<>> THEN <<>>
    ELSE <<<<"--select-class">>, package_name \o <<".">> \o Head(test_classes)>>
         \o server_select_class(package_name, Tail(test_classes))

\* server.py run_junit lines 299-322: cmd; default_class_path is not
\* configured
server_run_junit_cmd(a) ==
    LET target_dir == server_resolve_workspace_path(a.target_dir,
                                                    client_workspace_path)
        test_dir == server_resolve_workspace_path(a.test_dir,
                                                  client_workspace_path)
        cp == server_resolve_classpath(a.classpath, <<>>)
    IN  << <<"java">>,
           <<"-javaagent:">> \o build_path \o <<"/", "jacocoagent.jar">>
               \o <<"=destfile=">> \o build_path \o <<"/", "jacoco.exec">>
               \o <<",includes=">> \o junit_includes(a.package_name),
           <<"-cp">>,
           target_dir \o <<":">> \o test_dir \o <<":">>
               \o build_path \o <<"/">> \o cp \o <<":">>
               \o build_path \o <<"/", "junit.jar">>,
           <<"org.junit.platform.console.ConsoleLauncher">> >>
        \o (IF a.test_classes # <<>>
            THEN server_select_class(a.package_name, a.test_classes)
            ELSE <<<<"--scan-classpath">>, test_dir>>)

\* subprocess.CalledProcessError(returncode, cmd, output, stderr)
CalledProcessErrorWithOutput(returncode, cmd, output, stderr) ==
    [status |-> "raised", type |-> "CalledProcessError",
     returncode |-> returncode, cmd |-> cmd, output |-> output,
     stderr |-> stderr]

\* the arguments of a run_junit call
PackageNames == {<<>>, <<"com.example">>}

TestClassNames ==
    { <<"FooTest">>, <<"com.example", ".", "FooTest">>,
      <<"com.example", "x", ".", "FooTest">> }

JunitArgs(module) ==
    [module : {module},
     package_name : PackageNames,
     target_dir : {<<"main", "/", "bin">>},
     test_dir : {<<"test", "/", "bin">>, <<"/", "t">>},
     test_classes : SeqsUpTo(TestClassNames, MaxClasses),
     classpath : {<<>>, <<"a.jar">>, <<"a.jar", ":", "/", "b.jar">>},
     additional_classpath :
         IF module = "utils" THEN {<<>>, <<"x.jar">>} ELSE {<<>>},
     build_path : {build_path},
     jacoco_exec : {<<"jacoco.exec">>}]

\* what the test runner writes: standard output and standard error
SummaryLine3 == <<"[", " ", "3", " ", "tests", " ", "found", " ", "]">>
JunitStdouts == {<<>>, <<<<"Test", " ", "run">>, SummaryLine3>>}
JunitStderrs == {<<>>, <<<<"Exception">>>>}

Spawned == [exited |-> FALSE, returncode |-> 0, stdout |-> <<>>,
            stderr |-> <<>>]

\* utils.py run_junit up to the await of run_command_stderr_from_file
run_junit(a) ==
    /\ jn_pc = "idle"
    /\ cv_pc = "idle"
    /\ jn_args' = a
    /\ jn_cmd' = run_junit_cmd(a)
    /\ jn_proc' = Spawned
    /\ jn_pc' = "await"
    /\ UNCHANGED <<jn_outcome, compile_vars, resolve_vars, server_vars,
                   files_vars, classpath_vars, coverage_vars, parse_vars,
                   concurrent_vars>>

\* server.py run_junit up to the await of process.communicate()
server_run_junit_called(a) ==
    /\ jn_pc = "idle"
    /\ cv_pc = "idle"
    /\ jn_args' = a
    /\ jn_cmd' = server_run_junit_cmd(a)
    /\ jn_proc' = Spawned
    /\ jn_pc' = "await"
    /\ UNCHANGED <<jn_outcome, compile_vars, resolve_vars, server_vars,
                   files_vars, classpath_vars, coverage_vars, parse_vars,
                   concurrent_vars>>

\* utils.py run_junit lines 290-302 with the exit code never tested
run_junit_result_unchecked(cmd, returncode, stdout, stderr_decoded) ==
    [status |-> "returned", cmd |-> cmd,
     summary |-> junit_result_summary(stdout)]

\* utils.py run_junit lines 290-302: what the call raises or returns
run_junit_result(cmd, returncode, stdout, stderr_decoded) ==
    IF returncode # 0
    THEN CalledProcessErrorWithOutput(returncode, cmd, stdout, stderr_decoded)
    ELSE [status |-> "returned", cmd |-> cmd,
          summary |-> junit_result_summary(stdout)]

\* server.py run_junit lines 330-341
server_run_junit_result(cmd, returncode, stdout, stderr) ==
    IF returncode # 0
    THEN CalledProcessErrorWithOutput(returncode, cmd, stdout, stderr)
    ELSE [status |-> "returned", cmd |-> cmd, text |-> stdout]

\* the test runner exits: the rest of run_junit.  utils.py reads the
\* scratch file only after a non-zero exit, server.py reads the pipe
junit_returns(returncode, stdout, std_err) ==
    /\ jn_pc = "await"
    /\ jn_proc' = [exited |-> TRUE, returncode |-> returncode,
                   stdout |-> stdout, stderr |-> std_err]
    /\ jn_outcome' =
         IF jn_args.module = "utils"
         THEN run_junit_result(jn_cmd, returncode, stdout,
                               stderr_read(returncode, std_err))
         ELSE server_run_junit_result(jn_cmd, returncode, stdout, std_err)
    /\ jn_pc' = "done"
    /\ UNCHANGED <<jn_args, jn_cmd, compile_vars, resolve_vars, server_vars,
                   files_vars, classpath_vars, coverage_vars, parse_vars,
                   concurrent_vars>>

\* str.replace('.', '/') on a package name
RECURSIVE replace_dots(_)
replace_dots(name) ==
    IF name = <<>> THEN <<>>
    ELSE (IF Head(name) = "com.example" THEN <<"com", "/", "example">>
          ELSE IF Head(name) = "." THEN <<"/">>
          ELSE <<Head(name)>>)
         \o replace_dots(Tail(name))

\* utils.py report_coverage lines 320-322: report_path, jacoco_xml_path
report_path(a) == os_path_join(WorkspacePath, a.jacoco_report_dir)
jacoco_xml_path(a) == os_path_join(report_path(a), a.jacoco_report_file)

\* utils.py report_coverage lines 317-337 with the execution data always
\* read from the default file name
report_coverage_cmd_default_exec(a) ==
    LET classfiles == resolve_workspace_path(a.classfiles_dir, WorkspacePath)
        jacoco_classfiles ==
            IF a.package_name # <<>>
            THEN classfiles \o <<"/">> \o replace_dots(a.package_name)
            ELSE classfiles
    IN  << <<"java">>, <<"-jar">>,
           os_path_join(a.build_path, <<"jacococli.jar">>),
           <<"report">>, os_path_join(a.build_path, <<"jacoco.exec">>),
           <<"--classfiles">>, jacoco_classfiles,
           <<"--sourcefiles">>, <<".">>,
           <<"--xml">>, jacoco_xml_path(a) >>

\* utils.py report_coverage lines 317-337: cmd
report_coverage_cmd(a) ==
    LET classfiles == resolve_workspace_path(a.classfiles_dir, WorkspacePath)
        jacoco_classfiles ==
            IF a.package_name # <<>>
            THEN classfiles \o <<"/">> \o replace_dots(a.package_name)
            ELSE classfiles
    IN  << <<"java">>, <<"-jar">>,
           os_path_join(a.build_path, <<"jacococli.jar">>),
           <<"report">>, os_path_join(a.build_path, a.jacoco_exec),
           <<"--classfiles">>, jacoco_classfiles,
           <<"--sourcefiles">>, <<".">>,
           <<"--xml">>, jacoco_xml_path(a) >>

\* server.py generate_coverage lines 344-361: cmd
server_generate_coverage_cmd(a) ==
    LET classfiles == server_resolve_workspace_path(a.classfiles_dir,
                                                    client_workspace_path)
        jacoco_classfiles ==
            IF a.package_name # <<>>
            THEN classfiles \o <<"/">> \o replace_dots(a.package_name)
            ELSE classfiles
    IN  << <<"java">>, <<"-jar">>,
           build_path \o <<"/", "jacococli.jar">>,
           <<"report">>, build_path \o <<"/", "jacoco.exec">>,
           <<"--classfiles">>, jacoco_classfiles,
           <<"--sourcefiles">>, <<".">>,
           <<"--xml">>,
           build_path \o <<"/", "jacoco-report", "/", "jacoco.xml">> >>

CoverageArgs ==
    [module : {"utils"},
     classfiles_dir : {<<"main", "/", "bin">>, <<"/", "classes">>},
     package_name : PackageNames,
     build_path : {build_path},
     jacoco_exec : {<<"jacoco.exec">>},
     jacoco_report_dir : {<<"jacoco-report">>},
     jacoco_report_file : {<<"jacoco.xml">>}]

\* what the report generator leaves in jacoco.xml
CoverageReports ==
    { <<>>,
      <<Package("p", <<Class("p/A", <<LineCounter(3, 7)>>)>>)>> }

\* utils.py report_coverage lines 341-349: what the call raises or returns
report_coverage_result(cmd, returncode, stdout, stderr_decoded, report) ==
    IF returncode # 0
    THEN CalledProcessErrorWithOutput(returncode, cmd, stdout, stderr_decoded)
    ELSE [status |-> "returned", cmd |-> cmd,
          result |-> parse_coverage_report(report)]

\* server.py generate_coverage lines 369-381: what the call raises or
\* returns; parse_coverage_report of server.py is that of utils.py with the
\* path written out
server_generate_coverage_result(cmd, returncode, stdout, stderr, report) ==
    IF returncode # 0
    THEN CalledProcessErrorWithOutput(returncode, cmd, stdout, stderr)
    ELSE [status |-> "returned", cmd |-> cmd,
          text |-> parse_coverage_report(report)]

\* report_coverage of utils.py, generate_coverage of server.py, up to the
\* await on the report generator
report_coverage_called(a) ==
    /\ cv_pc = "idle"
    /\ cv_args' = a
    /\ made_dirs' = made_dirs \cup
           {IF a.module = "utils" THEN report_path(a)
            ELSE build_path \o <<"/", "jacoco-report">>}
    /\ cv_cmd' = IF a.module = "utils" THEN report_coverage_cmd(a)
                 ELSE server_generate_coverage_cmd(a)
    /\ cv_proc' = Spawned
    /\ cv_pc' = "await"
    /\ UNCHANGED <<cv_parsed, cv_outcome, pc, fs, files_arg, resolved_file,
                   output_dir, classpath, source_files, error_files,
                   invocations, outcome, resolve_vars, server_vars,
                   files_vars, classpath_vars, junit_vars, parse_vars,
                   concurrent_vars>>

\* a coverage call on its own
report_coverage(a) == jn_pc = "idle" /\ report_coverage_called(a)

\* the report generator exits: the rest of report_coverage; report is the
\* content of jacoco.xml at that moment
coverage_returns(returncode, std_err, report) ==
    /\ cv_pc = "await"
    /\ cv_proc' = [exited |-> TRUE, returncode |-> returncode,
                   stdout |-> <<>>, stderr |-> std_err]
    /\ cv_parsed' =
         IF returncode # 0 THEN <<>>
         ELSE IF cv_args.module = "utils" THEN jacoco_xml_path(cv_args)
         ELSE build_path \o <<"/", "jacoco-report", "/", "jacoco.xml">>
    /\ cv_outcome' =
         IF cv_args.module = "utils"
         THEN report_coverage_result(cv_cmd, returncode, <<>>,
                                     stderr_read(returncode, std_err), report)
         ELSE server_generate_coverage_result(cv_cmd, returncode, <<>>,
                                              std_err, report)
    /\ xml_report' = IF returncode # 0 THEN xml_report ELSE report
    /\ cv_pc' = "done"
    /\ UNCHANGED <<cv_args, cv_cmd, sm_stdout, sm_result, xml_result,
                   compile_vars, resolve_vars, server_vars, files_vars,
                   classpath_vars, junit_vars,
                   concurrent_vars>>

NextJunit ==
    \/ \E a \in JunitArgs("utils") : run_junit(a)
    \/ \E a \in JunitArgs("server") : server_run_junit_called(a)
    \/ \E returncode \in ExitCodes, stdout \in JunitStdouts,
          std_err \in JunitStderrs :
           junit_returns(returncode, stdout, std_err)
    \/ \E a \in CoverageArgs : report_coverage(a)
    \/ \E returncode \in ExitCodes, std_err \in JunitStderrs,
          report \in CoverageReports :
           coverage_returns(returncode, std_err, report)

SpecJunit == InitResolve /\ [][NextJunit]_vars

----------------------------------------------------------------------------
(* C13 *)

\* the value of the -cp option of the test-runner command, entry by entry
ClasspathPassed == str_split(jn_cmd[4], ":")

\* a path of the call taken under the workspace "." unless it is absolute
UnderDot(p) == IF p[1] = "/" THEN p ELSE <<".", "/">> \o p

RECURSIVE UnderDotAll(_)
UnderDotAll(entries) ==
    IF entries = <<>> THEN <<>>
    ELSE <<UnderDot(Head(entries))>> \o UnderDotAll(Tail(entries))

\* the explicit contribution of the call: its entries in input order, or the
\* current-directory marker when there are none
ExplicitEntries ==
    IF jn_args.classpath = <<>> THEN <<<<".">>>>
    ELSE UnderDotAll(str_split(jn_args.classpath, ":"))

BundledJar == <<".", "/", "junit_jacoco_jar_path", "/", "junit.jar">>

\* C13: the classpath passed to the test runner starts with the resolved
\* explicit entries in input order and ends with the target directory, the
\* test directory and the bundled test-runner jar, in this order; between the
\* two there is nothing but the caller's additional classpath
C13_ClasspathOrder ==
    jn_pc # "idle" =>
        \E between \in {<<>>, <<jn_args.additional_classpath>>} :
            ClasspathPassed =
                ExplicitEntries \o between
                \o <<UnderDot(jn_args.target_dir), UnderDot(jn_args.test_dir),
                     BundledJar>>

----------------------------------------------------------------------------
(* C15 *)

\* the arguments of the command after the launcher class
SelectionArguments == SubSeq(jn_cmd, 6, Len(jn_cmd))

IsPrefix(prefix, text) ==
    /\ Len(prefix) <= Len(text)
    /\ \A i \in 1..Len(prefix) : text[i] = prefix[i]

Qualified(p, c) ==
    IF p = <<>> \/ IsPrefix(p, c) THEN c ELSE p \o <<".">> \o c

\* C15: the i-th selection argument is the i-th test class itself when the
\* package filter is empty or the class already starts with it, and the
\* package filter, a dot and the class otherwise
C15_QualifiedOnlyWhenNeeded ==
    (jn_pc # "idle" /\ jn_args.test_classes # <<>>) =>
        /\ Len(SelectionArguments) = 2 * Len(jn_args.test_classes)
        /\ \A i \in 1..Len(jn_args.test_classes) :
               SelectionArguments[2 * i]
                   = Qualified(jn_args.package_name, jn_args.test_classes[i])

----------------------------------------------------------------------------
(* C16 *)

Occurrences(cmd, option) == {i \in 1..Len(cmd) : cmd[i] = <<option>>}

IsSuffix(suffix, text) ==
    /\ Len(suffix) <= Len(text)
    /\ SubSeq(text, Len(text) - Len(suffix) + 1, Len(text)) = suffix

\* C16: with test classes the command has one --select-class per class, in
\* input order, each followed by its class, and no --scan-classpath; without
\* test classes it has one --scan-classpath, followed by the resolved test
\* directory, and no --select-class
C16_SelectionModeIsExclusive ==
    jn_pc # "idle" =>
        LET n == Len(jn_args.test_classes)
        IN  IF n > 0
            THEN /\ Occurrences(jn_cmd, "--scan-classpath") = {}
                 /\ Occurrences(jn_cmd, "--select-class")
                      = {5 + 2 * i - 1 : i \in 1..n}
                 /\ Len(jn_cmd) = 5 + 2 * n
                 /\ \A i \in 1..n :
                        IsSuffix(jn_args.test_classes[i], jn_cmd[5 + 2 * i])
            ELSE /\ Occurrences(jn_cmd, "--select-class") = {}
                 /\ Occurrences(jn_cmd, "--scan-classpath") = {6}
                 /\ Len(jn_cmd) = 7
                 /\ jn_cmd[7] = UnderDot(jn_args.test_dir)

\* a call with two test classes and a call with none have built their
\* commands
C16_Witness ==
    /\ jn_pc = "await"
    /\ jn_args.module = "utils"
    /\ Len(jn_args.test_classes) = 2
    /\ jn_args.test_classes[1] # jn_args.test_classes[2]
    /\ jn_args.package_name # <<>>

----------------------------------------------------------------------------
(* The two parsers on their own *)

MaxOutputLines == 2
MaxCounters == 2

\* lines of the test runner's output: summary lines, the same label with
\* another count, and lines that are not summary lines
OutputLines ==
    { SummaryLine3,
      <<"[", " ", "5", " ", "tests", " ", "found", " ", "]">>,
      <<"[", "3", " ", "tests", "]">>,
      <<"[", " ", "3", "5", " ", "found", "]">>,
      <<"Test", " ", "run", " ", "finished">>,
      <<"[", " ", "tests", " ", "found", " ", "]">>,
      <<"[", " ", "3", " ", "tests", " ", "found">>,
      <<"[", " ", "3", " ", "]">>,
      <<"[", " ", "3", " ", "tests", ":", "found", " ", "]">>,
      <<"[", " ", "3", " ", "tests", " ", "found", " ", "]", " ", "Test">>,
      <<" ", "[", " ", "3", " ", "tests", " ", "found", " ", "]">>,
      <<>> }

\* counter elements as JaCoCo writes them
Counters ==
    [type : {"LINE", "BRANCH"},
     missed : {0, 3, 137},
     covered : {0, 7, 23}]

\* the counters of a second class or package of the report
FewCounterLists ==
    { <<>>, <<LineCounter(3, 7)>>,
      <<[type |-> "BRANCH", missed |-> 0, covered |-> 7]>> }

\* reports of the JaCoCo report generator: package names are unique, and
\* class names are unique within a package
Reports ==
    {<<>>, <<Package("p", <<>>)>>}
    \cup {<<Package("p", <<Class("p/A", cs)>>)>> : cs \in SeqsUpTo(Counters, MaxCounters)}
    \cup {<<Package("p", <<Class("p/A", cs), Class("p/B", fs2)>>)>> :
             cs \in SeqsUpTo(Counters, MaxCounters), fs2 \in FewCounterLists}
    \cup {<<Package("p", <<Class("p/A", cs)>>),
            Package("q", <<Class("q/A", fs2)>>)>> :
             cs \in SeqsUpTo(Counters, MaxCounters), fs2 \in FewCounterLists}

junit_result_summary_call(stdout_str) ==
    /\ sm_result = NoOutcome
    /\ xml_result = NoOutcome
    /\ sm_stdout' = stdout_str
    /\ sm_result' = [status |-> "returned",
                     result |-> junit_result_summary(stdout_str)]
    /\ UNCHANGED <<xml_report, xml_result, compile_vars, resolve_vars,
                   server_vars, files_vars, classpath_vars, junit_vars,
                   coverage_vars,
                   concurrent_vars>>

parse_coverage_report_call(report) ==
    /\ sm_result = NoOutcome
    /\ xml_result = NoOutcome
    /\ xml_report' = report
    /\ xml_result' = [status |-> "returned",
                      coverage_data |-> parse_coverage_report(report)]
    /\ UNCHANGED <<sm_stdout, sm_result, compile_vars, resolve_vars,
                   server_vars, files_vars, classpath_vars, junit_vars,
                   coverage_vars,
                   concurrent_vars>>

NextParse ==
    \/ \E stdout_str \in SeqsUpTo(OutputLines, MaxOutputLines) :
           junit_result_summary_call(stdout_str)
    \/ \E report \in Reports : parse_coverage_report_call(report)

SpecParse == InitResolve /\ [][NextParse]_vars

----------------------------------------------------------------------------
(* C18 *)

\* the ways to read a line as "[", spaces, an integer, spaces, words, "]":
\* the digits are line[d..w-1] and the words, with the spaces around them,
\* line[w..Len(line)-1]
Readings(line) ==
    {dw \in (2..Len(line)) \X (2..Len(line)) :
        /\ line[1] = "["
        /\ line[Len(line)] = "]"
        /\ dw[1] < dw[2]
        /\ \A i \in 2..(dw[1] - 1) : line[i] = " "
        /\ \A i \in dw[1]..(dw[2] - 1) : line[i] \in DigitTokens
        /\ line[dw[2]] = " "
        /\ \A i \in dw[2]..(Len(line) - 1) :
               line[i] \in WordTokens \cup DigitTokens \cup {" "}
        /\ \E i \in dw[2]..(Len(line) - 1) : line[i] # " "}

\* the line has the shape [ <integer> <words...> ]
WellFormed(line) == line # <<>> /\ Readings(line) # {}

Reading(line) == CHOOSE dw \in Readings(line) : TRUE

\* the integer of a well-formed line
CountOf(line) ==
    LET dw == Reading(line)
        Value[i \in (dw[1] - 1)..(dw[2] - 1)] ==
            IF i < dw[1] THEN 0
            ELSE 10 * Value[i - 1] + (IF line[i] = "3" THEN 3 ELSE 5)
    IN  Value[dw[2] - 1]

\* the words of a well-formed line, without the spaces around them
LabelOf(line) ==
    LET dw == Reading(line)
        inner == {i \in dw[2]..(Len(line) - 1) : line[i] # " "}
        first == CHOOSE i \in inner : \A j \in inner : i <= j
        last == CHOOSE i \in inner : \A j \in inner : j <= i
    IN  SubSeq(line, first, last)

\* C18: the result has an entry label -> count exactly for the lines of the
\* shape [ <integer> <words...> ]; of the well-formed lines with one label
\* the last gives the count; every other line contributes nothing
C18_SummaryHasExactlyTheWellFormedLines ==
    sm_result # NoOutcome =>
        sm_result.result =
            {<<LabelOf(sm_stdout[i]), CountOf(sm_stdout[i])>> :
                i \in {k \in 1..Len(sm_stdout) :
                         /\ WellFormed(sm_stdout[k])
                         /\ \A j \in (k + 1)..Len(sm_stdout) :
                                WellFormed(sm_stdout[j]) =>
                                    LabelOf(sm_stdout[j])
                                        # LabelOf(sm_stdout[k])}}

----------------------------------------------------------------------------
(* C19 *)

\* n / d rounded to the nearest integer, a tie to the even one
NearestInteger(n, d) ==
    LET q == n \div d
        r == n % d
    IN  IF 2 * r > d \/ (2 * r = d /\ q % 2 = 1) THEN q + 1 ELSE q

LineCounters(class_element) ==
    {i \in 1..Len(class_element.counters) :
        class_element.counters[i].type = "LINE"}

\* the entry the class element stands for: it is taken from the LINE counter
\* alone, the percentage in hundredths of a percent
ExpectedEntry(class_element) ==
    IF LineCounters(class_element) = {}
    THEN [coverage_percentage |-> 0, lines_covered |-> 0, total_lines |-> 0]
    ELSE LET counter == class_element.counters[
                            CHOOSE i \in LineCounters(class_element) :
                                \A j \in LineCounters(class_element) : i <= j]
             total == counter.missed + counter.covered
         IN  [coverage_percentage |->
                  IF total = 0 THEN 0
                  ELSE NearestInteger(10000 * counter.covered, total),
              lines_covered |-> counter.covered,
              total_lines |-> total]

\* C19: the report maps every package to its classes and every class to
\* {lines_covered: covered, total_lines: missed + covered,
\* coverage_percentage: round(100 * covered / (missed + covered), 2)} of its
\* LINE counter, with 0 percent for no lines and {0, 0, 0} without a LINE
\* counter
C19_CoverageEntryFromLineCounter ==
    xml_result # NoOutcome =>
        xml_result.coverage_data =
            {<<xml_report[p].name,
               {<<xml_report[p].classes[c].name,
                  ExpectedEntry(xml_report[p].classes[c])>> :
                   c \in 1..Len(xml_report[p].classes)}>> :
                p \in 1..Len(xml_report)}

----------------------------------------------------------------------------
(* C17 *)

\* the error carries the exit code and the diagnostic text of the process
Carries(error, process) ==
    /\ error.status = "raised"
    /\ error.type = "CalledProcessError"
    /\ error.returncode = process.returncode
    /\ error.stderr = process.stderr

\* C17: when the test runner or the report generator exits non-zero the
\* call raises an error with that exit code and the captured diagnostic
\* text, and neither a summary nor a coverage report has been parsed or is
\* returned; a summary or a report is returned only after exit code 0
C17_NonZeroExitFailsWithDiagnostics ==
    /\ jn_pc = "done" =>
           IF jn_proc.returncode # 0
           THEN /\ Carries(jn_outcome, jn_proc)
                /\ DOMAIN jn_outcome \cap {"summary", "text", "result"} = {}
           ELSE jn_outcome.status = "returned"
    /\ cv_pc = "done" =>
           IF cv_proc.returncode # 0
           THEN /\ Carries(cv_outcome, cv_proc)
                /\ DOMAIN cv_outcome \cap {"summary", "text", "result"} = {}
                /\ cv_parsed = <<>>
           ELSE /\ cv_outcome.status = "returned"
                /\ cv_parsed = jacoco_xml_path(cv_args)

\* the test runner of a utils.py call has exited 1 with diagnostic text and
\* with a summary line on its standard output
C17_Witness ==
    /\ jn_pc = "done"
    /\ jn_args.module = "utils"
    /\ jn_proc.returncode = 1
    /\ jn_proc.stderr # <<>>
    /\ jn_proc.stdout # <<>>

----------------------------------------------------------------------------
(* Cancellation of a compile call: utils.py run_command_stderr_from_file
   under task.cancel() *)

\* the caller cancels the call while it is suspended in
\* "await process.communicate()": CancelledError is raised there, the with
\* block closes the scratch file, and the exception leaves
\* compile_java_files and java_compile, neither of which catches it.
\* Nothing on this path calls process.kill() or process.terminate(): the
\* subprocess is left as it is
cancel ==
    /\ pc \in {"await1", "await2"}
    /\ outcome' = [status |-> "CancelledError"]
    /\ pc' = "done"
    /\ UNCHANGED <<fs, files_arg, resolved_file, output_dir, classpath,
                   source_files, error_files, invocations, made_dirs,
                   resolve_vars, server_vars, pipeline_vars>>

\* the compiler of a cancelled call exits by itself; nobody reads its
\* exit code or its diagnostics
abandoned_process_exits(returncode) ==
    /\ pc = "done"
    /\ outcome.status = "CancelledError"
    /\ ~invocations[Len(invocations)].exited
    /\ invocations' =
           [invocations EXCEPT ![Len(invocations)] =
               [@ EXCEPT !.exited = TRUE, !.returncode = returncode]]
    /\ UNCHANGED <<pc, fs, files_arg, resolved_file, output_dir, classpath,
                   source_files, error_files, made_dirs, outcome,
                   resolve_vars, server_vars, pipeline_vars>>

NextCancel ==
    \/ \E files \in {<<<<"*.java">>>>, <<<<"A.java">>, <<"B.java">>>>},
          args \in CompileArgs :
           java_compile(files, args)
    \/ \E returncode \in ExitCodes,
          std_err_file \in {<<>>, <<ErrLine(PA), SummaryLine>>} :
           first_invocation_returns(returncode, std_err_file)
    \/ \E returncode \in RetryExitCodes, std_err_file \in RetryDiagnostics :
           retry_returns(returncode, std_err_file)
    \/ cancel
    \/ \E returncode \in ExitCodes : abandoned_process_exits(returncode)

SpecCancel == Init /\ [][NextCancel]_vars

----------------------------------------------------------------------------
(* C20 *)

\* C20: once a call has ended with the Cancelled outcome, no subprocess it
\* started is still running
C20_CancelledCallLeavesNoSubprocess ==
    outcome.status = "CancelledError" =>
        \A i \in 1..Len(invocations) : invocations[i].exited

----------------------------------------------------------------------------
(* The pipeline of tests/test_tool.py: run_junit, then report_coverage, under
   configurations other than the default one *)

\* utils.py takes build_path, jacoco_exec, jacoco_report_dir and
\* jacoco_report_file as arguments; server.py has JAVA_BUILD_WORKSPACE only
PipelineJunitArgs(module) ==
    [module : {module},
     package_name : PackageNames,
     target_dir : {<<"main", "/", "bin">>},
     test_dir : {<<"test", "/", "bin">>},
     test_classes : {<<>>},
     classpath : {<<>>},
     additional_classpath : {<<>>},
     build_path : IF module = "utils"
                  THEN {build_path, <<"/", "opt", "/", "jars">>}
                  ELSE {build_path},
     jacoco_exec : IF module = "utils"
                   THEN {<<"jacoco.exec">>, <<"run2.exec">>,
                         <<"/", "tmp", "/", "j.exec">>}
                   ELSE {<<"jacoco.exec">>}]

PipelineCoverageArgs(module) ==
    [module : {module},
     classfiles_dir : {<<"main", "/", "bin">>},
     package_name : PackageNames,
     build_path : IF module = "utils"
                  THEN {build_path, <<"/", "opt", "/", "jars">>}
                  ELSE {build_path},
     jacoco_exec : IF module = "utils"
                   THEN {<<"jacoco.exec">>, <<"run2.exec">>,
                         <<"/", "tmp", "/", "j.exec">>}
                   ELSE {<<"jacoco.exec">>},
     jacoco_report_dir : IF module = "utils"
                         THEN {<<"jacoco-report">>, <<"/", "r">>}
                         ELSE {<<"jacoco-report">>},
     jacoco_report_file : IF module = "utils"
                          THEN {<<"jacoco.xml">>, <<"c.xml">>}
                          ELSE {<<"jacoco.xml">>}]

\* the coverage call that follows a finished run_junit call of the same
\* module
report_coverage_after_run_junit(a) ==
    /\ jn_pc = "done"
    /\ a.module = jn_args.module
    /\ report_coverage_called(a)

NextPipeline ==
    \/ \E a \in PipelineJunitArgs("utils") : run_junit(a)
    \/ \E a \in PipelineJunitArgs("server") : server_run_junit_called(a)
    \/ \E returncode \in ExitCodes, stdout \in JunitStdouts,
          std_err \in JunitStderrs :
           junit_returns(returncode, stdout, std_err)
    \/ \E a \in PipelineCoverageArgs("utils")
                   \cup PipelineCoverageArgs("server") :
           report_coverage_after_run_junit(a)
    \/ \E returncode \in ExitCodes, std_err \in JunitStderrs,
          report \in CoverageReports :
           coverage_returns(returncode, std_err, report)

SpecPipeline == InitResolve /\ [][NextPipeline]_vars

----------------------------------------------------------------------------
(* C22 *)

\* the path between "=destfile=" and ",includes=" of the -javaagent argument
Destfile(cmd) ==
    LET agent == cmd[2]
        i == CHOOSE k \in 1..Len(agent) : agent[k] = "=destfile="
        j == CHOOSE k \in 1..Len(agent) : agent[k] = ",includes="
    IN  SubSeq(agent, i + 1, j - 1)

\* the argument of cmd that follows the argument option
ArgumentAfter(cmd, option) ==
    cmd[(CHOOSE k \in 1..(Len(cmd) - 1) : cmd[k] = <<option>>) + 1]

SameConfiguration ==
    /\ jn_args.build_path = cv_args.build_path
    /\ jn_args.jacoco_exec = cv_args.jacoco_exec

\* C22: when report_coverage follows run_junit under the same build path
\* and execution-data file name, the destfile given to the coverage agent is
\* the execution-data path given to the report generator; and the XML path
\* requested from the generator is the path that is parsed afterwards
C22_ArtifactPathsAgree ==
    /\ (jn_pc = "done" /\ cv_pc # "idle" /\ SameConfiguration)
           => Destfile(jn_cmd) = ArgumentAfter(cv_cmd, "report")
    /\ (cv_pc = "done" /\ cv_proc.returncode = 0)
           => cv_parsed = ArgumentAfter(cv_cmd, "--xml")

\* a utils.py pipeline under a configuration that is not the default one has
\* run to the end: the tests passed and the report was generated and parsed
C22_Witness ==
    /\ jn_pc = "done" /\ jn_outcome.status = "returned"
    /\ cv_pc = "done" /\ cv_outcome.status = "returned"
    /\ jn_args.module = "utils"
    /\ SameConfiguration
    /\ jn_args.build_path = <<"/", "opt", "/", "jars">>
    /\ jn_args.jacoco_exec = <<"run2.exec">>
    /\ Destfile(jn_cmd) = <<"/", "opt", "/", "jars", "/", "run2.exec">>
    /\ cv_parsed = <<"/", "r", "/", "c.xml">>
    /\ cv_outcome.result # {}

----------------------------------------------------------------------------
(* C21 *)

\* C21: every partial_success outcome is strictly partial: compiled and
\* failed are both non-empty and disjoint, and failed holds only resolved
\* input files
C21_PartialSuccessIsStrictlyPartial ==
    outcome.status = "partial_success" =>
        /\ outcome.compiled_files # {}
        /\ outcome.failed_files # {}
        /\ outcome.compiled_files \cap outcome.failed_files = {}
        /\ outcome.failed_files \subseteq Inputs

----------------------------------------------------------------------------
(* Concurrent compile calls: utils.py compile_java_files on one event loop,
   every call suspended at "await process.communicate()" while the others
   run.  A scratch file is known by the invocation that created it (call,
   number of the invocation) and has the name it was created under; the
   compiler writes through the descriptor it was given, the call reads
   through its own descriptor *)

\* most compile calls in flight together
MaxCalls == 2

\* the names tempfile.NamedTemporaryFile can draw
ScratchNames == 1..MaxCalls

\* the files that exist under the name
Linked(files, name) == {f \in files : f.exists /\ f.name = name}

\* every name can be drawn, whether or not a file has it
scratch_names_free_any(files) == ScratchNames

\* NamedTemporaryFile creates the file exclusively, drawing random names
\* until one is free: a name that an existing file has is never drawn.
\* Free names are interchangeable, so the least one stands for them all
scratch_names_free(files) ==
    LET free == {n \in ScratchNames : Linked(files, n) = {}}
    IN  {n \in free : \A m \in free : n <= m}

\* the file that opening the name in mode "w+" at invocation id gives
scratch_ino(files, name, id) ==
    IF Linked(files, name) # {}
    THEN (CHOOSE f \in Linked(files, name) : TRUE).id
    ELSE id

\* opening the name in mode "w+": a new empty file, or the existing file
\* emptied
scratch_open(files, name, id) ==
    IF Linked(files, name) # {}
    THEN {IF f \in Linked(files, name) THEN [f EXCEPT !.content = <<>>]
          ELSE f : f \in files}
    ELSE files \cup {[id |-> id, name |-> name, content |-> <<>>,
                      exists |-> TRUE]}

\* leaving the with block (delete=True): the name is unlinked
scratch_close(files, name) ==
    {IF f \in Linked(files, name) THEN [f EXCEPT !.exists = FALSE] ELSE f :
        f \in files}

\* asyncio.create_subprocess_exec(*cmd, stderr=std_err_file)
Subprocess(cmd, name, ino) ==
    [cmd |-> cmd, scratch |-> name, ino |-> ino, state |-> "running",
     returncode |-> 0, written |-> <<>>, stderr_decoded |-> <<>>]

\* how a compiler can end: exit code and what it wrote to standard error
CompilerRuns ==
    { [returncode |-> 0, text |-> <<>>],
      [returncode |-> 0, text |-> <<WarnLine(PA)>>],
      [returncode |-> 1, text |-> <<ErrLine(PA)>>],
      [returncode |-> 1, text |-> <<ErrLine(PB)>>] }

\* a further call enters compile_java_files and reaches its first await
compile_java_files_called(files, name) ==
    /\ Len(cc_calls) < MaxCalls
    /\ name \in scratch_names_free(cc_files)
    /\ cc_files' = scratch_open(cc_files, name, <<Len(cc_calls) + 1, 1>>)
    /\ cc_calls' = Append(cc_calls,
           [pc |-> "await1", inputs |-> files, source_files |-> Range(files),
            error_files |-> {},
            invs |-> <<Subprocess(Cmd(<<"out">>, <<".">>, files), name,
                                  scratch_ino(cc_files, name,
                                              <<Len(cc_calls) + 1, 1>>))>>,
            outcome |-> NoOutcome])
    /\ UNCHANGED <<compile_vars, resolve_vars, server_vars, files_vars,
                   classpath_vars, junit_vars, coverage_vars, parse_vars>>

\* the compiler of call c writes its diagnostics and exits
compiler_exits(c, returncode, text) ==
    /\ c \in 1..Len(cc_calls)
    /\ LET k == Len(cc_calls[c].invs)
           inv == cc_calls[c].invs[k]
       IN  /\ inv.state = "running"
           /\ cc_files' = {IF f.id = inv.ino
                            THEN [f EXCEPT !.content = @ \o text]
                            ELSE f : f \in cc_files}
           /\ cc_calls' = [cc_calls EXCEPT ![c].invs[k] =
                  [inv EXCEPT !.state = "exited", !.returncode = returncode,
                              !.written = text]]
    /\ UNCHANGED <<compile_vars, resolve_vars, server_vars, files_vars,
                   classpath_vars, junit_vars, coverage_vars, parse_vars>>

\* call c resumes after "await process.communicate()": lines 117-123, then
\* lines 143-185 of compile_java_files
communicate_returns(c) ==
    /\ c \in 1..Len(cc_calls)
    /\ cc_calls[c].pc \in {"await1", "await2"}
    /\ LET call == cc_calls[c]
           k == Len(call.invs)
           inv == call.invs[k]
           std_err_file == CHOOSE f \in cc_files : f.id = inv.ino
           stderr_decoded == stderr_read(inv.returncode, std_err_file.content)
           closed == scratch_close(cc_files, inv.scratch)
           returned == [inv EXCEPT !.state = "returned",
                                   !.stderr_decoded = stderr_decoded]
           failed == scan_error_files(stderr_decoded)
           retry == retry_set(call.inputs, failed)
       IN  /\ inv.state = "exited"
           /\ IF call.pc = "await2"
              THEN /\ cc_files' = closed
                   /\ cc_calls' = [cc_calls EXCEPT
                          ![c].invs[k] = returned,
                          ![c].pc = "done",
                          ![c].outcome =
                              after_retry(inv.returncode, inv.cmd,
                                          stderr_decoded, call.source_files,
                                          call.error_files)]
              ELSE IF stderr_decoded = <<>>
              THEN /\ cc_files' = closed
                   /\ cc_calls' = [cc_calls EXCEPT
                          ![c].invs[k] = returned,
                          ![c].pc = "done",
                          ![c].outcome =
                              [status |-> "success",
                               compiled_files |-> call.inputs,
                               cmd |-> inv.cmd]]
              ELSE IF retry = {}
              THEN /\ cc_files' = closed
                   /\ cc_calls' = [cc_calls EXCEPT
                          ![c].invs[k] = returned,
                          ![c].error_files = failed,
                          ![c].source_files = retry,
                          ![c].pc = "done",
                          ![c].outcome =
                              CalledProcessError(inv.returncode, inv.cmd,
                                                 stderr_decoded)]
              ELSE \E name \in scratch_names_free(closed),
                      order \in Orders(retry) :
                   /\ cc_files' = scratch_open(closed, name, <<c, 2>>)
                   /\ cc_calls' = [cc_calls EXCEPT
                          ![c].invs =
                              <<returned,
                                Subprocess(Cmd(<<"out">>, <<".">>, order),
                                           name,
                                           scratch_ino(closed, name,
                                                       <<c, 2>>))>>,
                          ![c].error_files = failed,
                          ![c].source_files = retry,
                          ![c].pc = "await2"]
    /\ UNCHANGED <<compile_vars, resolve_vars, server_vars, files_vars,
                   classpath_vars, junit_vars, coverage_vars, parse_vars>>

\* call c is cancelled at its await: CancelledError leaves the with block,
\* which closes the scratch file
cancel_call(c) ==
    /\ c \in 1..Len(cc_calls)
    /\ cc_calls[c].pc \in {"await1", "await2"}
    /\ LET call == cc_calls[c]
           inv == call.invs[Len(call.invs)]
       IN  /\ cc_files' = scratch_close(cc_files, inv.scratch)
           /\ cc_calls' = [cc_calls EXCEPT
                  ![c].pc = "done",
                  ![c].outcome = [status |-> "CancelledError"]]
    /\ UNCHANGED <<compile_vars, resolve_vars, server_vars, files_vars,
                   classpath_vars, junit_vars, coverage_vars, parse_vars>>

NextConcurrent ==
    \/ \E name \in ScratchNames :
           compile_java_files_called(<<PA, PB>>, name)
    \/ \E c \in 1..MaxCalls, run \in CompilerRuns :
           compiler_exits(c, run.returncode, run.text)
    \/ \E c \in 1..MaxCalls : communicate_returns(c)
    \/ \E c \in 1..MaxCalls : cancel_call(c)

SpecConcurrent == InitResolve /\ [][NextConcurrent]_vars

----------------------------------------------------------------------------
(* C23 *)

\* what the call that started the compiler gets to see of what it wrote
OwnDiagnostics(inv) == IF inv.returncode # 0 THEN inv.written ELSE <<>>

====
